---- MODULE Spec2Model ----
(***************************************************************************)
(* State-machine model of the adaptive generative-inference pipeline:      *)
(* AdaptiveLayerManager, CurriculumLearningScheduler, ModularPluginSystem, *)
(* ModelHealthMonitor, ProgressiveMultiScaleRefinement, NextGenImageModel, *)
(* SelfOptimizationSystem, MemoryAwareInferenceEngine.                     *)
(*                                                                         *)
(* Real numbers in [0,1] are carried as integers in hundredths (0.7 is     *)
(* 70), so every comparison of an average against a threshold is done     *)
(* exactly by cross-multiplication.  Quality estimates are carried in      *)
(* units of 1/6000 and progress fractions in units of 1/60000, in which    *)
(* every product and quotient the code forms is an integer.                *)
(***************************************************************************)
EXTENDS Integers, Sequences, FiniteSets, TLC

VARIABLES
    layerConfig,        \* AdaptiveLayerManager.config
    layers,             \* AdaptiveLayerManager.layers
    complexityHistory,  \* AdaptiveLayerManager.complexityHistory
    currentStageIndex,  \* CurriculumLearningScheduler.currentStageIndex (0-based)
    progress,           \* CurriculumLearningScheduler.progress
    performanceHistory, \* CurriculumLearningScheduler.performanceHistory
    plugins,            \* ModularPluginSystem.plugins: id -> plugin, or NoPlugin
    activePlugins,      \* ModularPluginSystem.activePlugins: a Set, kept in insertion order
    healthThresholds,   \* ModelHealthMonitor.thresholds
    outputHistory,      \* ModelHealthMonitor.outputHistory
    baselineMetrics,    \* ModelHealthMonitor.baselineMetrics, NoBaseline for null
    alertCallbacks,     \* ModelHealthMonitor.alertCallbacks: the callbacks, by name
    monitorCalls,       \* number of monitorOutput calls so far; Date.now() advances with it
    refinementConfig,   \* ProgressiveMultiScaleRefinement.config
    initialized,        \* NextGenImageModel.initialized
    initializing,       \* number of initialize() calls suspended in their delay
    calls,              \* the generate() calls made so far, each with its position and what it did
    enableSelfOptimization, \* NextGenImageModel.config.enableSelfOptimization
    optimizeCalls,      \* the optimize() calls made so far, each with its position and the generate calls it made
    optimizationThreshold, \* SelfOptimizationSystem.optimizationThreshold, in thousandths
    optState,           \* SelfOptimizationSystem.state
    benchmarkHistory,   \* SelfOptimizationSystem.benchmarkHistory
    engineProfile,      \* MemoryAwareInferenceEngine.profile
    engineConfig,       \* MemoryAwareInferenceEngine.config
    memoryUsage,        \* MemoryAwareInferenceEngine.memoryUsage
    inferenceHistory,   \* MemoryAwareInferenceEngine.inferenceHistory
    inferences,         \* the executeInference() calls made so far, each with its position and what it did
    lastCall            \* observation of the most recent call on a component: operation, arguments, outcome

layerVars == <<layerConfig, layers, complexityHistory>>

curriculumVars == <<currentStageIndex, progress, performanceHistory>>

pluginVars == <<plugins, activePlugins>>

healthVars == <<healthThresholds, outputHistory, baselineMetrics, alertCallbacks, monitorCalls>>

modelVars == <<refinementConfig, initialized, initializing, calls, enableSelfOptimization, optimizeCalls>>

optVars == <<optimizationThreshold, optState, benchmarkHistory>>

engineVars == <<engineProfile, engineConfig, memoryUsage, inferenceHistory, inferences>>

vars ==
    <<layerVars, curriculumVars, pluginVars, healthVars, modelVars, optVars, engineVars, lastCall>>

NoCall == [op |-> "none"]

\* ------------------------------------------------------------ helpers

RECURSIVE SumSeq(_)
SumSeq(s) == IF s = <<>> THEN 0 ELSE Head(s) + SumSeq(Tail(s))

Min(a, b) == IF a < b THEN a ELSE b

Max(a, b) == IF a > b THEN a ELSE b

\* ------------------------------------------------------------ AdaptiveLayerManager

ComplexityWindow == 10

AttentionCutoff == 70

ConvolutionCutoff == 40

LayerTypes == {"attention", "convolution", "normalization", "activation"}

\* bounds of the controller's model
MaxTotalLayers == 5

ComplexitySamples == {11, 93}

LayerConfigs ==
    { [minLayers |-> m[1], maxLayers |-> m[2], expansionThreshold |-> t[1], contractionThreshold |-> t[2]] :
        m \in {<<1, 3>>, <<2, 2>>, <<2, 3>>}, t \in {<<70, 30>>, <<30, 70>>} }

NewLayer(id, type) ==
    [id |-> id, type |-> type, active |-> TRUE, complexity |-> 100]

\* the constructor's loop: minLayers attention layers layer_0 .. layer_{min-1}
initializeBaseLayers(cfg) ==
    [i \in 1..cfg.minLayers |-> NewLayer(i - 1, "attention")]

IsActive(l) == l.active

\* Array.prototype.filter is SelectSeq
getActiveLayers(ls) == SelectSeq(ls, IsActive)

getActiveLayerCount(ls) == Len(getActiveLayers(ls))

\* avg > t  <=>  sum > t * n ; the empty history averages 0.5
AvgAbove(hist, t) ==
    IF hist = <<>> THEN 50 > t ELSE SumSeq(hist) > t * Len(hist)

AvgBelow(hist, t) ==
    IF hist = <<>> THEN 50 < t ELSE SumSeq(hist) < t * Len(hist)

\* the types selectLayerType can return for this history (the last branch is Math.random)
selectLayerType(hist) ==
    IF AvgAbove(hist, AttentionCutoff) THEN {"attention"}
    ELSE IF AvgAbove(hist, ConvolutionCutoff) THEN {"convolution"}
    ELSE LayerTypes

\* an expansion that appends two layers
expandLayers_Twice(ls, type) ==
    Append(Append(ls, NewLayer(Len(ls), type)), NewLayer(Len(ls) + 1, type))

expandLayers(ls, type) == Append(ls, NewLayer(Len(ls), type))

\* reduce((least, cur) => cur.complexity < least.complexity ? cur : least): index in ls
RECURSIVE LeastFrom(_, _, _)
LeastFrom(ls, idxs, least) ==
    IF idxs = <<>> THEN least
    ELSE LeastFrom(ls, Tail(idxs),
                   IF ls[Head(idxs)].complexity < ls[least].complexity THEN Head(idxs) ELSE least)

ActiveIndices(ls) ==
    LET IsAct(i) == ls[i].active
    IN SelectSeq([i \in 1..Len(ls) |-> i], IsAct)

findLeastImportantLayer(ls) ==
    LET idxs == ActiveIndices(ls) IN LeastFrom(ls, Tail(idxs), Head(idxs))

\* a contraction that splices the layer out of the list
contractLayers_Splice(ls, cfg) ==
    IF getActiveLayerCount(ls) > cfg.minLayers
    THEN SubSeq(ls, 1, findLeastImportantLayer(ls) - 1)
         \o SubSeq(ls, findLeastImportantLayer(ls) + 1, Len(ls))
    ELSE ls

contractLayers(ls, cfg) ==
    IF getActiveLayerCount(ls) > cfg.minLayers
    THEN [ls EXCEPT ![findLeastImportantLayer(ls)].active = FALSE]
    ELSE ls

\* a push that records the sample twice
PushComplexity_Twice(hist, c) == Append(Append(hist, c), c)

PushComplexity(hist, c) ==
    LET h == Append(hist, c)
    IN IF Len(h) > ComplexityWindow THEN Tail(h) ELSE h

\* expansion that ignores the maxLayers cap
ShouldExpand_NoCap(ls, hist, cfg) ==
    AvgAbove(hist, cfg.expansionThreshold)

\* expansion that stops one layer short of maxLayers
ShouldExpand_StopsShort(ls, hist, cfg) ==
    AvgAbove(hist, cfg.expansionThreshold) /\ getActiveLayerCount(ls) < cfg.maxLayers - 1

ShouldExpand(ls, hist, cfg) ==
    AvgAbove(hist, cfg.expansionThreshold) /\ getActiveLayerCount(ls) < cfg.maxLayers

ShouldContract(ls, hist, cfg) ==
    AvgBelow(hist, cfg.contractionThreshold) /\ getActiveLayerCount(ls) > cfg.minLayers

\* two independent ifs instead of if / else if: an expansion may be followed by a contraction
AdaptedLayers_BothBranches(ls, hist, cfg) ==
    LET afterExpand == IF ShouldExpand(ls, hist, cfg)
                       THEN { expandLayers(ls, t) : t \in selectLayerType(hist) }
                       ELSE { ls }
    IN { IF ShouldContract(l, hist, cfg) THEN contractLayers(l, cfg) ELSE l : l \in afterExpand }

\* the layer lists adaptLayers can leave, given the history after the push
AdaptedLayers(ls, hist, cfg) ==
    IF ShouldExpand(ls, hist, cfg)
    THEN { expandLayers(ls, t) : t \in selectLayerType(hist) }
    ELSE IF ShouldContract(ls, hist, cfg)
    THEN { contractLayers(ls, cfg) }
    ELSE { ls }

\* the effect of adaptLayers(c) on the controller's fields
AdaptEffect(c) ==
    /\ complexityHistory' = PushComplexity(complexityHistory, c)
    /\ layers' \in AdaptedLayers(layers, complexityHistory', layerConfig)
    /\ UNCHANGED layerConfig

\* createDefaultModel's adaptiveLayers
DefaultLayerConfig ==
    [minLayers |-> 4, maxLayers |-> 12, expansionThreshold |-> 70, contractionThreshold |-> 30]

InitLayers(cfg) ==
    /\ layerConfig = cfg
    /\ layers = initializeBaseLayers(cfg)
    /\ complexityHistory = <<>>

\* ------------------------------------------------------------ CurriculumLearningScheduler

\* initializeCurriculum: the difficulties of Foundation .. Master, in hundredths
StageDifficulty == <<20, 50, 70, 90, 100>>

NumStages == Len(StageDifficulty)

PerformanceWindow == 100

RecentCount == 20

\* bounds of the curriculum's model: the accuracy fed may differ from the previous
\* sample only among the first MaxVaried samples of a window
MaxVaried == 3

Accuracies == {95, 85, 50}

Losses == {5, 120}

Slice(s, from, to) == [i \in 1..(to - from + 1) |-> s[from + i - 1]]

\* Array.prototype.slice(-n)
LastN(s, n) == IF Len(s) <= n THEN s ELSE Slice(s, Len(s) - n + 1, Len(s))

\* sum of (n*x_i - S)^2 over the samples, which is n^2 * n * variance
RECURSIVE SumSqDev(_, _, _)
SumSqDev(s, n, total) ==
    IF s = <<>> THEN 0
    ELSE (n * Head(s) - total) * (n * Head(s) - total) + SumSqDev(Tail(s), n, total)

\* stdDev < 0.05  <=>  variance < 0.0025  <=>  sum (n x_i - S)^2 < 25 * n^3 (hundredths)
isPerformanceStable(recent) ==
    LET n == Len(recent)
    IN SumSqDev(recent, n, SumSeq(recent)) < 25 * n * n * n

\* requiredAccuracy = 0.7 + difficulty * 0.2, in thousandths
RequiredAccuracy(idx) == 700 + StageDifficulty[idx + 1] * 2

\* an advance test without the 20-sample minimum
shouldAdvanceStage_NoMinimum(hist, idx) ==
    LET recent == LastN(hist, RecentCount)
    IN /\ isPerformanceStable(recent)
       /\ SumSeq(recent) * 10 >= RequiredAccuracy(idx) * Len(recent)

shouldAdvanceStage(hist, idx) ==
    IF Len(hist) < RecentCount THEN FALSE
    ELSE LET recent == LastN(hist, RecentCount)
         IN /\ isPerformanceStable(recent)
            /\ SumSeq(recent) * 10 >= RequiredAccuracy(idx) * Len(recent)

\* a window that is emptied, not shifted, when it overflows
PushPerformance_ClearWhenFull(hist, a) ==
    LET h == Append(hist, a)
    IN IF Len(h) > PerformanceWindow THEN <<>> ELSE h

PushPerformance(hist, a) ==
    LET h == Append(hist, a)
    IN IF Len(h) > PerformanceWindow THEN Tail(h) ELSE h

\* a guard that lets the last stage advance as well
NotAtLastStage_OffByOne(idx) == idx < NumStages

NotAtLastStage(idx) == idx < NumStages - 1

\* an advance that carries the rolling window over into the next stage
updateProgress_KeepsWindow(loss, accuracy) ==
    LET hist == PushPerformance(performanceHistory, accuracy)
        ready == shouldAdvanceStage(hist, currentStageIndex)
        p == [progress EXCEPT !.totalLoss = loss, !.avgAccuracy = accuracy,
                              !.readyForNextStage = ready]
    IN IF ready /\ NotAtLastStage(currentStageIndex)
       THEN /\ currentStageIndex' = currentStageIndex + 1
            /\ progress' = [p EXCEPT !.stagesCompleted = @ + 1,
                                     !.currentStage = currentStageIndex + 1]
            /\ performanceHistory' = hist
       ELSE /\ currentStageIndex' = currentStageIndex
            /\ progress' = p
            /\ performanceHistory' = hist

updateProgress(loss, accuracy) ==
    LET hist == PushPerformance(performanceHistory, accuracy)
        ready == shouldAdvanceStage(hist, currentStageIndex)
        p == [progress EXCEPT !.totalLoss = loss, !.avgAccuracy = accuracy,
                              !.readyForNextStage = ready]
    IN IF ready /\ NotAtLastStage(currentStageIndex)
       THEN \* advanceStage
            /\ currentStageIndex' = currentStageIndex + 1
            /\ progress' = [p EXCEPT !.stagesCompleted = @ + 1,
                                     !.currentStage = currentStageIndex + 1]
            /\ performanceHistory' = <<>>
       ELSE /\ currentStageIndex' = currentStageIndex
            /\ progress' = p
            /\ performanceHistory' = hist

InitCurriculum ==
    /\ currentStageIndex = 0
    /\ progress = [currentStage |-> 0, stagesCompleted |-> 0, totalLoss |-> 0,
                   avgAccuracy |-> 0, readyForNextStage |-> FALSE]
    /\ performanceHistory = <<>>

\* the accuracy stream settles after the first MaxVaried samples of a window
AccuracyAllowed(a) ==
    IF Len(performanceHistory) < MaxVaried THEN TRUE
    ELSE a = performanceHistory[Len(performanceHistory)]

\* ------------------------------------------------------------ ModularPluginSystem

DefaultPluginIds ==
    {"perceptual-loss", "style-guidance", "noise-reduction", "sharpen", "adaptive-lr"}

CustomPluginIds == {"p1"}

PluginIds == DefaultPluginIds \cup CustomPluginIds

\* the ids the callers of this model pass: a custom id, a default id, one never registered
CallIds == {"p1", "sharpen", "ghost"}

NoPlugin == [id |-> "undefined"]

NoConfig == "undefined"

PluginTypes == {"loss", "guidance", "preprocessor", "postprocessor", "attention", "optimizer"}

\* a plugin: execute is named by body (it appends its name to the input's trail),
\* validate is absent ("none") or the predicate input => input.valid
MkPlugin(id, type, body, validate, config) ==
    [id |-> id, type |-> type, body |-> body, validate |-> validate, config |-> config]

DefaultPlugin(id) ==
    MkPlugin(id,
             CASE id = "perceptual-loss" -> "loss"
               [] id = "style-guidance" -> "guidance"
               [] id = "noise-reduction" -> "preprocessor"
               [] id = "sharpen" -> "postprocessor"
               [] id = "adaptive-lr" -> "optimizer",
             id, "none", NoConfig)

\* the plugins callers register under an id
PluginsFor(id) ==
    { MkPlugin(id, "postprocessor", "a", "none", NoConfig),
      MkPlugin(id, "postprocessor", "b", "checks", "cfgB"),
      MkPlugin(id, "preprocessor", "c", "checks", NoConfig) }

Inputs == { [valid |-> v, trail |-> <<>>] : v \in BOOLEAN }

Configs == {NoConfig, "cfgCall"}

Range(s) == { s[i] : i \in 1..Len(s) }

\* Set.prototype.has / add / delete on the insertion-ordered set
SetHas(set, id) == id \in Range(set)

SetAdd(set, id) == IF SetHas(set, id) THEN set ELSE Append(set, id)

SetDelete(set, id) ==
    LET Other(x) == x # id IN SelectSeq(set, Other)

IsRegistered(plg, id) == id \in DOMAIN plg /\ plg[id] # NoPlugin

\* registerPlugin: this.plugins[plugin.id] = plugin
\* a registry that keeps the plugin an id was first registered with
Registered_KeepsFirst(plg, plugin) ==
    IF IsRegistered(plg, plugin.id) THEN plg ELSE [plg EXCEPT ![plugin.id] = plugin]

Registered(plg, plugin) == [plg EXCEPT ![plugin.id] = plugin]

\* an array push instead of Set.add
ActivatedSet_Push(act, id) == Append(act, id)

\* activatePlugin, for a registered id: this.activePlugins.add(id)
ActivatedSet(act, id) == SetAdd(act, id)

\* deactivatePlugin: [the active set after the call, the value returned, the console
\* method the call reports with]
Deactivated_(act, id) ==
    IF ~SetHas(act, id) THEN [active |-> act, result |-> FALSE, level |-> "warn"]
    ELSE [active |-> SetDelete(act, id), result |-> TRUE, level |-> "log"]

\* a removal that forgets to deactivate
ActiveAfterRemove_Keep(act, id) == act

\* removePlugin, for a registered id: this.deactivatePlugin(id)
ActiveAfterRemove(act, id) == Deactivated_(act, id).active

\* plugin.validate(input)
Validate(plugin, input) == input.valid

\* plugin.execute(input, config)
Execute(plugin, input, config) == [input EXCEPT !.trail = Append(@, plugin.body)]

Thrown(err, v, e) ==
    [threw |-> TRUE, error |-> err, validateCalls |-> v, executeCalls |-> e]

Returned(out, cfg, v, e) ==
    [threw |-> FALSE, output |-> out, config |-> cfg, validateCalls |-> v, executeCalls |-> e]

\* an execute that does not require the plugin to be active
executePlugin_NoActiveCheck(plg, act, id, input, config) ==
    IF ~IsRegistered(plg, id) THEN Thrown("not found", <<>>, <<>>)
    ELSE LET plugin == plg[id]
             cfg == IF config # NoConfig THEN config ELSE plugin.config
         IN Returned(Execute(plugin, input, cfg), cfg, <<>>, <<id>>)

\* an execute that never consults the validator
executePlugin_NoValidate(plg, act, id, input, config) ==
    IF ~IsRegistered(plg, id) THEN Thrown("not found", <<>>, <<>>)
    ELSE IF ~SetHas(act, id) THEN Thrown("not active", <<>>, <<>>)
    ELSE LET plugin == plg[id]
             cfg == IF config # NoConfig THEN config ELSE plugin.config
         IN Returned(Execute(plugin, input, cfg), cfg, <<>>, <<id>>)

\* executePlugin: what the call does, with the callables it invoked, in order
executePlugin(plg, act, id, input, config) ==
    IF ~IsRegistered(plg, id) THEN Thrown("not found", <<>>, <<>>)
    ELSE IF ~SetHas(act, id) THEN Thrown("not active", <<>>, <<>>)
    ELSE LET plugin == plg[id]
             cfg == IF config # NoConfig THEN config ELSE plugin.config
         IN IF plugin.validate # "none" /\ ~Validate(plugin, input)
            THEN Thrown("input validation failed", <<id>>, <<>>)
            ELSE Returned(Execute(plugin, input, cfg), cfg,
                          IF plugin.validate # "none" THEN <<id>> ELSE <<>>, <<id>>)

\* executePluginsByType: the loop over the active set, from its i-th member on
RECURSIVE ByTypeFrom(_, _, _, _, _, _, _, _)
ByTypeFrom(plg, act, i, type, result, config, v, e) ==
    IF i > Len(act) THEN Returned(result, config, v, e)
    ELSE IF plg[act[i]].type # type THEN ByTypeFrom(plg, act, i + 1, type, result, config, v, e)
    ELSE LET r == executePlugin(plg, act, act[i], result, config)
         IN IF r.threw
            THEN Thrown(r.error, v \o r.validateCalls, e \o r.executeCalls)
            ELSE ByTypeFrom(plg, act, i + 1, type, r.output, config,
                            v \o r.validateCalls, e \o r.executeCalls)

\* a loop that walks the active set from its newest member to its oldest
executePluginsByType_Newest(plg, act, type, input, config) ==
    ByTypeFrom(plg, [i \in 1..Len(act) |-> act[Len(act) + 1 - i]], 1, type, input, config,
               <<>>, <<>>)

executePluginsByType(plg, act, type, input, config) ==
    ByTypeFrom(plg, act, 1, type, input, config, <<>>, <<>>)

\* listActivePlugins(): the ids of the plugins it returns, in order
listActivePlugins(plg, act) ==
    LET Defined(id) == IsRegistered(plg, id) IN SelectSeq(act, Defined)

getExecutionPipeline(plg, act, type) ==
    LET OfType(id) == IsRegistered(plg, id) /\ plg[id].type = type IN SelectSeq(act, OfType)

\* the constructor: five default plugins registered, none active
InitPlugins ==
    /\ plugins = [id \in PluginIds |-> IF id \in DefaultPluginIds THEN DefaultPlugin(id) ELSE NoPlugin]
    /\ activePlugins = <<>>

\* ------------------------------------------------------------ ModelHealthMonitor

HealthWindow == 100

DriftSpan == 10

AnomalySpan == 5

\* the constructor's default thresholds, in hundredths
DefaultHealthThresholds ==
    [minStability |-> 70, maxHallucinationRate |-> 10, maxDriftScore |-> 30, minConfidence |-> 60]

\* a similarity below 0.3 counts as a hallucination; an anomaly score above 0.7 is an anomaly
HallucinationCutoff == 30

AnomalyCutoff == 70

NoBaseline == [set |-> FALSE]

NoPattern == "undefined"

\* outputs and expected patterns are opaque non-string values (image buffers), named here
Outputs == {"buf1", "buf2"}

ExpectedPatterns == {NoPattern, "buf1"}

\* bounds of the monitor's model: the number of monitorOutput calls, of calls whose
\* output may differ from the one before, and of registered callbacks
MaxMonitorCalls == 150

MaxVariedOutputs == 2

MaxCallbacks == 2

\* a rational number n / d
Frac(n, d) == [n |-> n, d |-> d]

\* f < t / 100 and f > t / 100
FracBelow(f, t) == 100 * f.n < t * f.d

FracAbove(f, t) == 100 * f.n > t * f.d

\* the outputs and patterns that are strings, with their characters
StringValues == {"a", "b", "ab"}

IsString(o) == o \in StringValues

Chars(o) ==
    CASE o = "a" -> <<"a">>
      [] o = "b" -> <<"b">>
      [] o = "ab" -> <<"a", "b">>

\* levenshteinDistance: the last cell of the matrix, by the matrix's recurrence
RECURSIVE levenshteinDistance(_, _)
levenshteinDistance(str1, str2) ==
    IF str1 = <<>> THEN Len(str2)
    ELSE IF str2 = <<>> THEN Len(str1)
    ELSE LET front1 == SubSeq(str1, 1, Len(str1) - 1)
             front2 == SubSeq(str2, 1, Len(str2) - 1)
         IN IF str1[Len(str1)] = str2[Len(str2)]
            THEN levenshteinDistance(front1, front2)
            ELSE 1 + Min(levenshteinDistance(front1, front2),
                         Min(levenshteinDistance(front1, str2),
                             levenshteinDistance(str1, front2)))

\* a similarity that finds nothing in common between two different non-string values
computeSimilarity_AllOrNothing(o1, o2) ==
    IF IsString(o1) /\ IsString(o2)
    THEN LET longer == IF Len(Chars(o1)) > Len(Chars(o2)) THEN Chars(o1) ELSE Chars(o2)
         IN IF Len(longer) = 0 THEN 100
            ELSE (100 * (Len(longer) - levenshteinDistance(Chars(o1), Chars(o2))))
                     \div Len(longer)
    ELSE IF o1 = o2 THEN 100 ELSE 0

\* computeSimilarity, in hundredths: for two strings the share of the longer one that
\* the edit distance leaves, for other values 1.0 when identical, else 0.5
computeSimilarity(o1, o2) ==
    IF IsString(o1) /\ IsString(o2)
    THEN LET longer == IF Len(Chars(o1)) > Len(Chars(o2)) THEN Chars(o1) ELSE Chars(o2)
         IN IF Len(longer) = 0 THEN 100
            ELSE (100 * (Len(longer) - levenshteinDistance(Chars(o1), Chars(o2))))
                     \div Len(longer)
    ELSE IF o1 = o2 THEN 100 ELSE 50

\* Array.prototype.slice(from, to) with negative indices, as a sequence
JsSlice(s, from, to) ==
    LET n == Len(s)
        lo == IF from < 0 THEN Max(n + from, 0) ELSE Min(from, n)
        hi == IF to < 0 THEN Max(n + to, 0) ELSE Min(to, n)
    IN IF hi <= lo THEN <<>> ELSE Slice(s, lo + 1, hi)

RECURSIVE ConsecutiveSimilarity(_, _)
ConsecutiveSimilarity(h, i) ==
    IF i > Len(h) THEN 0
    ELSE computeSimilarity(h[i - 1].output, h[i].output) + ConsecutiveSimilarity(h, i + 1)

calculateOutputStability(h) ==
    IF Len(h) < 2 THEN Frac(1, 1)
    ELSE Frac(ConsecutiveSimilarity(h, 2), 100 * (Len(h) - 1))

estimateHallucinationRate(h) ==
    LET withExpected == { i \in 1..Len(h) : h[i].expectedPattern # NoPattern }
        hallucinated == { i \in withExpected :
                            computeSimilarity(h[i].output, h[i].expectedPattern) < HallucinationCutoff }
    IN IF withExpected # {} THEN Frac(Cardinality(hallucinated), Cardinality(withExpected))
       ELSE Frac(0, 1)

RECURSIVE DriftSum(_, _, _, _)
DriftSum(recent, base, i, count) ==
    IF i > count THEN 0
    ELSE (100 - computeSimilarity(recent[i].output, base[i].output))
         + DriftSum(recent, base, i + 1, count)

calculateDrift(h, baseline) ==
    IF baseline = NoBaseline \/ Len(h) < DriftSpan THEN Frac(0, 1)
    ELSE LET recent == JsSlice(h, 0 - DriftSpan, Len(h))
             base == JsSlice(h, 0, DriftSpan)
             count == Min(Len(recent), Len(base))
         IN Frac(DriftSum(recent, base, 1, count), 100 * count)

calculateConfidence(h) ==
    LET st == calculateOutputStability(h)
        hr == estimateHallucinationRate(h)
    IN Frac(st.n * (hr.d - hr.n), st.d * hr.d)

\* the inner loop of detectAnomalies: Math.min over the previous entries, from 1.0
RECURSIVE MinSimilarity(_, _, _)
MinSimilarity(entry, previous, least) ==
    IF previous = <<>> THEN least
    ELSE MinSimilarity(entry, Tail(previous),
                       Min(least, computeSimilarity(entry.output, Head(previous).output)))

RECURSIVE AnomalySum(_, _)
AnomalySum(recent, previous) ==
    IF recent = <<>> THEN 0
    ELSE (100 - MinSimilarity(Head(recent), previous, 100)) + AnomalySum(Tail(recent), previous)

detectAnomalies(h) ==
    IF Len(h) < AnomalySpan THEN FALSE
    ELSE LET recent == JsSlice(h, 0 - AnomalySpan, Len(h))
             previous == JsSlice(h, 0 - 2 * AnomalySpan, 0 - AnomalySpan)
         IN IF previous = <<>> THEN FALSE
            ELSE FracAbove(Frac(AnomalySum(recent, previous), 100 * Len(recent)), AnomalyCutoff)

calculateHealthMetrics(h, baseline) ==
    [outputStability |-> calculateOutputStability(h),
     hallucinationRate |-> estimateHallucinationRate(h),
     driftScore |-> calculateDrift(h, baseline),
     confidenceLevel |-> calculateConfidence(h),
     anomalyDetected |-> detectAnomalies(h)]

\* checkHealthIssues: the issues found, in the order they are pushed
healthIssues(m, th) ==
    (IF FracBelow(m.outputStability, th.minStability)
        THEN <<[issue |-> "stability", severity |-> "medium"]>> ELSE <<>>)
    \o (IF FracAbove(m.hallucinationRate, th.maxHallucinationRate)
        THEN <<[issue |-> "hallucination", severity |-> "high"]>> ELSE <<>>)
    \o (IF FracAbove(m.driftScore, th.maxDriftScore)
        THEN <<[issue |-> "drift", severity |-> "medium"]>> ELSE <<>>)
    \o (IF FracBelow(m.confidenceLevel, th.minConfidence)
        THEN <<[issue |-> "confidence", severity |-> "low"]>> ELSE <<>>)
    \o (IF m.anomalyDetected
        THEN <<[issue |-> "anomaly", severity |-> "high"]>> ELSE <<>>)

\* alerting that calls every callback once when anything is wrong, with the first issue
AlertsFor_FirstIssue(issues, callbacks) ==
    IF issues = <<>> THEN <<>>
    ELSE [i \in 1..Len(callbacks) |->
              [callback |-> callbacks[i], issue |-> Head(issues).issue,
               severity |-> Head(issues).severity]]

\* the callback invocations of checkHealthIssues, in order: for each issue, every callback
RECURSIVE AlertsFor(_, _)
AlertsFor(issues, callbacks) ==
    IF issues = <<>> THEN <<>>
    ELSE [i \in 1..Len(callbacks) |->
              [callback |-> callbacks[i], issue |-> Head(issues).issue,
               severity |-> Head(issues).severity]]
         \o AlertsFor(Tail(issues), callbacks)

\* a window that evicts the entry just pushed instead of the oldest
PushOutput_DropNewest(h, entry) ==
    LET pushed == Append(h, entry)
    IN IF Len(pushed) > HealthWindow THEN SubSeq(pushed, 1, Len(pushed) - 1) ELSE pushed

\* monitorOutput: push, then shift once the window exceeds 100
PushOutput(h, entry) ==
    LET pushed == Append(h, entry)
    IN IF Len(pushed) > HealthWindow THEN Tail(pushed) ELSE pushed

\* a monitor that takes every call's metrics as the new baseline
CapturedBaseline_Always(baseline, metrics) == [set |-> TRUE, metrics |-> metrics]

\* monitorOutput: if (!this.baselineMetrics) this.baselineMetrics = { ...metrics }
CapturedBaseline(baseline, metrics) ==
    IF baseline = NoBaseline THEN [set |-> TRUE, metrics |-> metrics] ELSE baseline

\* getHealthReport: the current metrics and the baseline it returns; its trend and
\* recommendations are derived from these two and from the thresholds
getHealthReport(h, baseline) ==
    [current |-> calculateHealthMetrics(h, baseline), baseline |-> baseline]

\* resetBaseline: this.baselineMetrics = this.calculateHealthMetrics()
resetBaseline(h, baseline) == [set |-> TRUE, metrics |-> calculateHealthMetrics(h, baseline)]

MonitorEffect(output, expectedPattern) ==
    LET entry == [output |-> output, timestamp |-> monitorCalls + 1,
                  expectedPattern |-> expectedPattern]
        h == PushOutput(outputHistory, entry)
        metrics == calculateHealthMetrics(h, baselineMetrics)
    IN /\ outputHistory' = h
       /\ baselineMetrics' = CapturedBaseline(baselineMetrics, metrics)
       /\ monitorCalls' = monitorCalls + 1
       /\ lastCall' = [op |-> "monitorOutput", metrics |-> metrics,
                       alerts |-> AlertsFor(healthIssues(metrics, healthThresholds),
                                            alertCallbacks)]
       /\ UNCHANGED <<healthThresholds, alertCallbacks>>

\* the constructor, with the thresholds after the caller's partial ones are merged in
NewMonitor(thresholds) ==
    /\ healthThresholds = thresholds
    /\ outputHistory = <<>>
    /\ baselineMetrics = NoBaseline
    /\ alertCallbacks = <<>>
    /\ monitorCalls = 0

InitHealth ==
    /\ healthThresholds = DefaultHealthThresholds
    /\ outputHistory = <<>>
    /\ baselineMetrics = NoBaseline
    /\ alertCallbacks = <<>>
    /\ monitorCalls = 0

\* ------------------------------------------------------------ ProgressiveMultiScaleRefinement

\* quality 1.0
QualityOne == 6000

\* the quality reported with the preview, 0.3
PreviewQuality == 1800

\* estimateQuality's weights: 0.3 per unit of variance, 0.3 per unit of edge strength
\* (both carried in hundredths), 0.4 per unit of progress
VarianceWeight == 18

EdgeWeight == 18

ProgressWeight == 2400

\* createDefaultModel's refinementConfig: the scales in hundredths, the threshold 0.85
DefaultRefinementConfig ==
    [scales |-> <<25, 50, 75, 100>>, qualityThreshold |-> 5100]

\* the configurations the scheduler is built with: the default one, the default ladder
\* and a two-scale ladder with threshold 0.5, and a ladder of the full scale alone
RefinementConfigs ==
    { DefaultRefinementConfig,
      [scales |-> <<25, 50, 75, 100>>, qualityThreshold |-> 3000],
      [scales |-> <<50, 100>>, qualityThreshold |-> 3000],
      [scales |-> <<100>>, qualityThreshold |-> 5100] }

\* what calculateVariance and calculateEdgeStrength find in a blended image, in
\* hundredths: a uniform image, and one at both caps
ImageStats ==
    { [variance |-> 0, edgeStrength |-> 0], [variance |-> 100, edgeStrength |-> 100] }

\* estimateQuality(image, i / scales.length)
estimateQuality(stats, i, n) ==
    Min(QualityOne,
        VarianceWeight * stats.variance + EdgeWeight * stats.edgeStrength
            + (ProgressWeight * i) \div n)

\* the early-stopping test that never stops
QualityMet_Never(q, cfg) == FALSE

\* the early-stopping test of the refinement loop
QualityMet(q, cfg) == q >= cfg.qualityThreshold

\* ------------------------------------------------------------ NextGenImageModel

\* progress fraction 1.0
ProgressOne == 60000

\* the fraction reported after the architecture was adapted, 0.1
ArchitectureAdapted == 6000

\* the share of the refinement in the progress fraction, 0.8
RefinementShare == 8

\* the quality a preview-only call returns, 0.5
PreviewOnlyQuality == 3000

\* memory estimate per active layer, in MB
MemoryPerLayer == 10

Resolutions == {"preview", "standard", "high", "ultra"}

\* resolutionComplexity, in hundredths
resolutionComplexity(resolution) ==
    CASE resolution = "preview"  -> 20
      [] resolution = "standard" -> 50
      [] resolution = "high"     -> 70
      [] resolution = "ultra"    -> 90

\* the options the callers pass: resolution, words of the prompt, progress callback or none
Requests ==
    { [resolution |-> "preview", words |-> 3, hasCallback |-> TRUE],
      [resolution |-> "standard", words |-> 3, hasCallback |-> TRUE],
      [resolution |-> "ultra", words |-> 7, hasCallback |-> FALSE] }

\* the layer configurations the orchestrator is built with
ModelLayerConfigs ==
    { cfg \in LayerConfigs : cfg.minLayers = 2 /\ cfg.maxLayers = 3 }

\* bounds of the orchestrator's model
MaxGenerateCalls == 2

MaxPendingInitialize == 1

analyzeTaskComplexity(resolution, words) ==
    Min(100, resolutionComplexity(resolution) + Min(30, words))

\* a guard that lets every call through
generateThrows_Never(init) == FALSE

\* generate's guard on the initialized flag
generateThrows(init) == ~init

\* the record of a generate call that has done nothing yet; adapted keeps the active
\* layer count this.layerManager.adaptLayers(complexity) of this call left
NewCall(resolution, hasCallback) ==
    [resolution |-> resolution, hasCallback |-> hasCallback, pc |-> "entered",
     step |-> 0, quality |-> 0, estimates |-> <<>>, invoked |-> <<>>, reports |-> <<>>,
     adapted |-> 0, layersUsed |-> 0, memoryUsed |-> 0]

\* options.progressCallback(fraction, stage), when the caller passed one
Report(call, fraction) ==
    IF call.hasCallback THEN [call EXCEPT !.reports = Append(@, fraction)] ELSE call

\* the onProgress closure generate hands to generateProgressive
onProgress(call, q) == Report(call, ArchitectureAdapted + RefinementShare * q)

\* baseGenerator(prompt, scale): baseGenerate runs up to its delay
InvokeGenerator(call, scale, pc) ==
    [call EXCEPT !.invoked = Append(@, scale), !.pc = pc]

\* this.config.scales[0], undefined (carried as -1) on a zero-length ladder
UndefinedScale == 0 - 1

FirstScale(cfg) == IF Len(cfg.scales) > 0 THEN cfg.scales[1] ELSE UndefinedScale

\* the call that failed on the guard
ThrownCall(resolution, hasCallback) ==
    [NewCall(resolution, hasCallback) EXCEPT !.pc = "threw"]

\* generate after the guard, up to its first suspension: the 0.1 report and the
\* request of the pass at scales[0], by generatePreview or by generateProgressive
StartedCall(cfg, resolution, hasCallback) ==
    LET c == Report(NewCall(resolution, hasCallback), ArchitectureAdapted)
    IN InvokeGenerator(c, FirstScale(cfg),
                       IF resolution = "preview" THEN "generatePreview" ELSE "preview")

\* the end of generate: architecture info, the 1.0 report, the returned metadata
CompletedCall(call, activeLayers) ==
    [Report(call, ProgressOne) EXCEPT !.pc = "returned", !.layersUsed = activeLayers,
                                      !.memoryUsed = activeLayers * MemoryPerLayer]

\* a loop that leaves out the last scale of the ladder
RefinementLoop_SkipLast(cfg, call, i, activeLayers) ==
    IF i < Len(cfg.scales) - 1
    THEN InvokeGenerator([call EXCEPT !.step = i], cfg.scales[i + 1], "refine")
    ELSE CompletedCall(call, activeLayers)

\* the head of the refinement loop at index i: the next pass, or the end of the ladder
RefinementLoop(cfg, call, i, activeLayers) ==
    IF i < Len(cfg.scales)
    THEN InvokeGenerator([call EXCEPT !.step = i], cfg.scales[i + 1], "refine")
    ELSE CompletedCall(call, activeLayers)

\* a suspended generate call continues with the image of the pass it awaited
ResumedCall(cfg, call, stats, activeLayers) ==
    CASE call.pc = "generatePreview" ->
            CompletedCall([call EXCEPT !.quality = PreviewOnlyQuality], activeLayers)
      [] call.pc = "preview" ->
            RefinementLoop(cfg, onProgress([call EXCEPT !.quality = PreviewQuality], PreviewQuality),
                           1, activeLayers)
      [] call.pc = "refine" ->
            LET q == estimateQuality(stats, call.step, Len(cfg.scales))
                c == onProgress([call EXCEPT !.quality = q, !.estimates = Append(@, q)], q)
            IN IF QualityMet(q, cfg)
               THEN CompletedCall(c, activeLayers)
               ELSE RefinementLoop(cfg, c, call.step + 1, activeLayers)

Suspended(call) == call.pc \in {"generatePreview", "preview", "refine"}

\* a failure handler that asks for the failed pass once more
FailedCall_Retry(call) == [call EXCEPT !.invoked = Append(@, @[Len(@)])]

\* the awaited pass rejects: no try / catch in generatePreview, generateProgressive or
\* generate, so the call rejects with that failure and runs no further statement
FailedCall(call) == [call EXCEPT !.pc = "failed"]

\* the constructor, for a refinementConfig and an enableSelfOptimization flag
InitOrchestrator(cfg, selfOptimization) ==
    /\ refinementConfig = cfg
    /\ initialized = FALSE
    /\ initializing = 0
    /\ calls = <<>>
    /\ enableSelfOptimization = selfOptimization
    /\ optimizeCalls = <<>>

\* the constructor with createDefaultModel's enableSelfOptimization: true
InitModel(cfg) == InitOrchestrator(cfg, TRUE)

\* ------------------------------------------------------------ SelfOptimizationSystem

\* the constructor's default optimizationThreshold, 0.05, in thousandths
DefaultOptimizationThreshold == 50

\* calculateImprovement's weights, in tenths
QualityWeight == 4

SpeedWeight == 3

MemoryWeight == 2

ConsistencyWeight == 1

OptimizationThresholds == {DefaultOptimizationThreshold, 0}

ZeroMetrics == [quality |-> 0, speed |-> 0, memoryEfficiency |-> 0, consistency |-> 0]

\* what runBenchmarks can measure, in hundredths: quality in [0.8, 1), speed and
\* memoryEfficiency from 0, consistency in [0.7, 1)
MetricSamples ==
    { [quality |-> 80, speed |-> 0, memoryEfficiency |-> 100, consistency |-> 70],
      [quality |-> 80, speed |-> 0, memoryEfficiency |-> 100, consistency |-> 90],
      [quality |-> 95, speed |-> 60, memoryEfficiency |-> 100, consistency |-> 90],
      [quality |-> 95, speed |-> 0, memoryEfficiency |-> 40, consistency |-> 70] }

\* bound of the optimization loop's model
MaxGenerations == 4

\* the weighted delta of current against best, in thousandths
calculateImprovement(current, best) ==
    (current.quality - best.quality) * QualityWeight
    + (current.speed - best.speed) * SpeedWeight
    + (current.memoryEfficiency - best.memoryEfficiency) * MemoryWeight
    + (current.consistency - best.consistency) * ConsistencyWeight

\* a counter that is bumped only when the cycle improved
NextGeneration_OnImprovement(st, improvement, threshold) ==
    IF improvement > threshold THEN st.generation + 1 ELSE st.generation

\* this.state.generation++
NextGeneration(st, improvement, threshold) == st.generation + 1

\* a comparison that takes every positive delta for an improvement
Improved_AnyGain(improvement, threshold) == improvement > 0

Improved(improvement, threshold) == improvement > threshold

Degraded(improvement, threshold) == improvement < -threshold

\* a cycle that takes whatever it measured for the best so far
CycleState_LatestIsBest(st, metrics, threshold) ==
    [st EXCEPT !.bestMetrics = metrics, !.currentMetrics = metrics,
               !.improvements = @ + 1, !.generation = @ + 1]

\* the state runOptimizationCycle leaves once its benchmarks have measured metrics
CycleState(st, metrics, threshold) ==
    LET improvement == calculateImprovement(metrics, st.bestMetrics)
        compared ==
            IF Improved(improvement, threshold)
            THEN [st EXCEPT !.bestMetrics = metrics, !.improvements = @ + 1]
            ELSE IF Degraded(improvement, threshold)
            THEN [st EXCEPT !.degradations = @ + 1]
            ELSE st
    IN [compared EXCEPT !.currentMetrics = metrics,
                        !.generation = NextGeneration(st, improvement, threshold)]

InitOptimization(threshold) ==
    /\ optimizationThreshold = threshold
    /\ optState = [generation |-> 0, bestMetrics |-> ZeroMetrics, currentMetrics |-> ZeroMetrics,
                   improvements |-> 0, degradations |-> 0]
    /\ benchmarkHistory = <<>>

\* ------------------------------------------------------------ MemoryAwareInferenceEngine

\* Memory is carried in bytes, except profile.availableMemory, which is carried in
\* float32 slots of 4 bytes (1 MB is 262144 slots); input elements are carried in
\* thousandths and latencies in milliseconds.
SlotsPerMB == 262144

BytesPerFloat == 4

\* the capacity of inferenceHistory
InferenceWindow == 100

\* optimizeSettings enables mixed precision below 80 percent of calls within the target
TargetMetFloor == 80

\* createDefaultModel's resourceProfile and inferenceConfig
DefaultProfile ==
    [availableMemory |-> 2048 * SlotsPerMB, computeCapability |-> "gpu", maxBatchSize |-> 4,
     targetLatency |-> 1000]

DefaultInferenceConfig ==
    [useMixedPrecision |-> TRUE, enableQuantization |-> FALSE, dynamicBatching |-> TRUE,
     memoryPoolSize |-> 512]

\* an edge profile of 20 bytes, and the configurations engines are constructed with
EdgeProfile ==
    [availableMemory |-> 5, computeCapability |-> "edge", maxBatchSize |-> 1,
     targetLatency |-> 100]

InferenceConfigs ==
    { [DefaultInferenceConfig EXCEPT !.useMixedPrecision = m, !.enableQuantization = q] :
        m \in BOOLEAN, q \in BOOLEAN }

\* inputs of 2, 4 and 5 elements, with elements below 0.01
EngineInputs == { <<4, 500>>, <<500, 6, 4, 500>>, <<4, 500, 6, 500, 700>> }

\* what performance.now() measures for a call
Latencies == {50, 200}

\* bound of the engine's model: the number of executeInference calls
MaxInferences == 2

\* checkMemoryAvailability: memoryUsage + requiredMemory < availableMemory * 1024 * 1024 * 0.8,
\* with requiredMemory = 4 * length; in bytes, 5 * (usage + required) < 16 * slots
checkMemoryAvailability(profile, usage, length) ==
    LET a == profile.availableMemory
    IN 5 * (usage + BytesPerFloat * length - 16 * (a \div 5)) < 16 * (a % 5)

\* calculateOptimalChunkSize: floor(availableMemory * 1024 * 1024 * 0.5 / 4)
calculateOptimalChunkSize(profile) == profile.availableMemory \div 2

\* convertToMixedPrecision: Math.round(val * 100) / 100 for |val| < 0.01
convertToMixedPrecision(input) ==
    [i \in 1..Len(input) |->
        IF input[i] < 10 /\ input[i] > 0 - 10 THEN ((input[i] + 5) \div 10) * 10 ELSE input[i]]

\* splitIntoChunks, from offset i on (the loop ends only for a positive chunkSize)
RECURSIVE ChunksFrom(_, _, _)
ChunksFrom(data, i, chunkSize) ==
    IF i >= Len(data) THEN <<>>
    ELSE <<SubSeq(data, i + 1, Min(i + chunkSize, Len(data)))>>
         \o ChunksFrom(data, i + chunkSize, chunkSize)

\* chunks that overlap by their first element
splitIntoChunks_Overlap(data, chunkSize) ==
    [c \in 1..Len(ChunksFrom(data, 0, chunkSize)) |->
        IF c = 1 THEN ChunksFrom(data, 0, chunkSize)[1]
        ELSE <<data[(c - 1) * chunkSize]>> \o ChunksFrom(data, 0, chunkSize)[c]]

splitIntoChunks(data, chunkSize) == ChunksFrom(data, 0, chunkSize)

RECURSIVE mergeResults(_)
mergeResults(results) ==
    IF results = <<>> THEN <<>> ELSE Head(results) \o mergeResults(Tail(results))

\* the inference function of the callers: it returns one output element per input element
modelFn(input) == [i \in 1..Len(input) |-> input[i] + 1000]

\* trackInference: push, then shift once the history exceeds 100
trackInference(history, latency, memoryUsed) ==
    LET pushed == Append(history, [latency |-> latency, memoryUsed |-> memoryUsed])
    IN IF Len(pushed) > InferenceWindow THEN Tail(pushed) ELSE pushed

\* getPerformanceMetrics, its three values as fractions
getPerformanceMetrics(history, profile) ==
    IF Len(history) = 0
    THEN [avgLatency |-> Frac(0, 1), avgMemoryUsage |-> Frac(0, 1), targetLatencyMet |-> Frac(0, 1)]
    ELSE [avgLatency |-> Frac(SumSeq([i \in 1..Len(history) |-> history[i].latency]), Len(history)),
          avgMemoryUsage |->
              Frac(SumSeq([i \in 1..Len(history) |-> history[i].memoryUsed]), Len(history)),
          targetLatencyMet |->
              Frac(100 * Cardinality({ i \in 1..Len(history) :
                                         history[i].latency <= profile.targetLatency }),
                   Len(history))]

\* settings that follow the latency metric in both directions
optimizeSettings_Tracks(config, history, profile) ==
    LET metrics == getPerformanceMetrics(history, profile)
    IN [config EXCEPT !.useMixedPrecision =
                          metrics.targetLatencyMet.n < TargetMetFloor * metrics.targetLatencyMet.d]

\* optimizeSettings: the config after the call; avgMemoryUsage is compared with
\* availableMemory in MB times 0.7
optimizeSettings(config, history, profile) ==
    LET metrics == getPerformanceMetrics(history, profile)
        precise == IF /\ metrics.targetLatencyMet.n < TargetMetFloor * metrics.targetLatencyMet.d
                      /\ ~config.useMixedPrecision
                   THEN [config EXCEPT !.useMixedPrecision = TRUE] ELSE config
    IN IF 10 * SlotsPerMB * metrics.avgMemoryUsage.n
              > 7 * BytesPerFloat * profile.availableMemory * metrics.avgMemoryUsage.d
       THEN [precise EXCEPT !.enableQuantization = TRUE] ELSE precise

\* the record of an executeInference call that has done nothing yet
NewInference(input) ==
    [input |-> input, path |-> "none", pc |-> "entered", chunks |-> <<>>, results |-> <<>>,
     invoked |-> <<>>, output |-> <<>>]

\* await modelFn(arg)
InvokeModel(call, arg, pc) == [call EXCEPT !.invoked = Append(@, arg), !.pc = pc]

ReturnedInference(call, output) == [call EXCEPT !.pc = "returned", !.output = output]

\* the head of executeWithMemoryConstraints' loop: the next chunk, or the merged results
NextChunk(call) ==
    IF Len(call.results) < Len(call.chunks)
    THEN InvokeModel(call, call.chunks[Len(call.results) + 1], "chunk")
    ELSE ReturnedInference(call, mergeResults(call.results))

\* executeInference up to its first suspension
StartedInference(profile, config, usage, input) ==
    IF ~checkMemoryAvailability(profile, usage, Len(input))
    THEN NextChunk([NewInference(input) EXCEPT
                        !.path = "chunked",
                        !.chunks = splitIntoChunks(input, calculateOptimalChunkSize(profile))])
    ELSE InvokeModel([NewInference(input) EXCEPT !.path = "direct"],
                     IF config.useMixedPrecision THEN convertToMixedPrecision(input) ELSE input,
                     "model")

\* the awaited modelFn call delivers: the direct path returns, the chunked path keeps
\* the result and yields
DeliveredInference(call) ==
    LET result == modelFn(call.invoked[Len(call.invoked)])
    IN IF call.pc = "model" THEN ReturnedInference(call, result)
       ELSE [call EXCEPT !.results = Append(@, result), !.pc = "yield"]

\* the awaited modelFn call rejects: neither path catches
FailedInference(call) == [call EXCEPT !.pc = "failed"]

\* the constructor
InitEngine(profile, config) ==
    /\ engineProfile = profile
    /\ engineConfig = config
    /\ memoryUsage = 0
    /\ inferenceHistory = <<>>
    /\ inferences = <<>>

\* ------------------------------------------------------------ specifications

\* the Architecture Controller alone
adaptLayers(c) ==
    /\ Len(layers) < MaxTotalLayers
    /\ AdaptEffect(c)
    /\ lastCall' = [op |-> "adaptLayers", complexity |-> c]
    /\ UNCHANGED <<curriculumVars, pluginVars, healthVars, modelVars, optVars, engineVars>>

InitL ==
    /\ \E cfg \in LayerConfigs : InitLayers(cfg)
    /\ InitCurriculum
    /\ InitPlugins
    /\ InitHealth
    /\ InitModel(DefaultRefinementConfig)
    /\ InitOptimization(DefaultOptimizationThreshold)
    /\ InitEngine(DefaultProfile, DefaultInferenceConfig)
    /\ lastCall = NoCall

NextL == \E c \in ComplexitySamples : adaptLayers(c)

SpecL == InitL /\ [][NextL]_vars

\* the Architecture Controller of createDefaultModel, from its construction; the
\* observation counts the calls and tells whether every sample so far was 0.9
SteadySamples == {90, 11}

\* bound of the default controller's model
MaxAdaptCalls == 12

AdaptFresh(c) ==
    /\ lastCall.calls < MaxAdaptCalls
    /\ AdaptEffect(c)
    /\ lastCall' = [op |-> "adaptLayers", complexity |-> c, calls |-> lastCall.calls + 1,
                    steady |-> lastCall.steady /\ c = 90]
    /\ UNCHANGED <<curriculumVars, pluginVars, healthVars, modelVars, optVars, engineVars>>

InitF ==
    /\ InitLayers(DefaultLayerConfig)
    /\ InitCurriculum
    /\ InitPlugins
    /\ InitHealth
    /\ InitModel(DefaultRefinementConfig)
    /\ InitOptimization(DefaultOptimizationThreshold)
    /\ InitEngine(DefaultProfile, DefaultInferenceConfig)
    /\ lastCall = [op |-> "none", calls |-> 0, steady |-> TRUE]

NextF == \E c \in SteadySamples : AdaptFresh(c)

SpecF == InitF /\ [][NextF]_vars

\* the Curriculum Controller alone
UpdateProgress(loss, accuracy) ==
    /\ AccuracyAllowed(accuracy)
    /\ updateProgress(loss, accuracy)
    /\ lastCall' = [op |-> "updateProgress", loss |-> loss, accuracy |-> accuracy,
                    stageBefore |-> currentStageIndex]
    /\ UNCHANGED <<layerVars, pluginVars, healthVars, modelVars, optVars, engineVars>>

InitC ==
    /\ InitLayers(DefaultLayerConfig)
    /\ InitCurriculum
    /\ InitPlugins
    /\ InitHealth
    /\ InitModel(DefaultRefinementConfig)
    /\ InitOptimization(DefaultOptimizationThreshold)
    /\ InitEngine(DefaultProfile, DefaultInferenceConfig)
    /\ lastCall = NoCall

NextC == \E loss \in Losses, a \in Accuracies : UpdateProgress(loss, a)

SpecC == InitC /\ [][NextC]_vars

\* the Plugin Registry alone
RegisterPlugin(plugin) ==
    /\ UNCHANGED <<layerVars, curriculumVars, healthVars, modelVars, optVars, engineVars>>
    /\ plugins' = Registered(plugins, plugin)
    /\ UNCHANGED activePlugins
    /\ lastCall' = [op |-> "registerPlugin", id |-> plugin.id, plugin |-> plugin,
                    overwrote |-> IsRegistered(plugins, plugin.id)]

\* createPlugin builds the plugin from its arguments and registers it
CreatePlugin(id, type, body, validate, config) ==
    /\ UNCHANGED <<layerVars, curriculumVars, healthVars, modelVars, optVars, engineVars>>
    /\ plugins' = Registered(plugins, MkPlugin(id, type, body, validate, config))
    /\ UNCHANGED activePlugins
    /\ lastCall' = [op |-> "createPlugin", id |-> id,
                    overwrote |-> IsRegistered(plugins, id)]

ActivatePlugin(id) ==
    /\ UNCHANGED <<layerVars, curriculumVars, healthVars, modelVars, optVars, engineVars>>
    /\ activePlugins' = IF IsRegistered(plugins, id) THEN ActivatedSet(activePlugins, id)
                        ELSE activePlugins
    /\ UNCHANGED plugins
    /\ lastCall' = [op |-> "activatePlugin", id |-> id, result |-> IsRegistered(plugins, id),
                    level |-> IF IsRegistered(plugins, id) THEN "log" ELSE "error",
                    wasActive |-> SetHas(activePlugins, id)]

DeactivatePlugin(id) ==
    /\ UNCHANGED <<layerVars, curriculumVars, healthVars, modelVars, optVars, engineVars>>
    /\ activePlugins' = Deactivated_(activePlugins, id).active
    /\ UNCHANGED plugins
    /\ lastCall' = [op |-> "deactivatePlugin", id |-> id,
                    result |-> Deactivated_(activePlugins, id).result,
                    level |-> Deactivated_(activePlugins, id).level]

RemovePlugin(id) ==
    /\ UNCHANGED <<layerVars, curriculumVars, healthVars, modelVars, optVars, engineVars>>
    /\ IF IsRegistered(plugins, id)
       THEN /\ activePlugins' = ActiveAfterRemove(activePlugins, id)
            /\ plugins' = [plugins EXCEPT ![id] = NoPlugin]
       ELSE UNCHANGED <<plugins, activePlugins>>
    /\ lastCall' = [op |-> "removePlugin", id |-> id, result |-> IsRegistered(plugins, id),
                    wasActive |-> SetHas(activePlugins, id)]

ExecutePlugin(id, input, config) ==
    /\ UNCHANGED <<layerVars, curriculumVars, healthVars, modelVars, optVars, engineVars>>
    /\ UNCHANGED <<plugins, activePlugins>>
    /\ lastCall' = [op |-> "executePlugin", id |-> id, input |-> input,
                    registered |-> IsRegistered(plugins, id),
                    active |-> SetHas(activePlugins, id),
                    outcome |-> executePlugin(plugins, activePlugins, id, input, config)]

ExecutePluginsByType(type, input, config) ==
    /\ UNCHANGED <<layerVars, curriculumVars, healthVars, modelVars, optVars, engineVars>>
    /\ UNCHANGED <<plugins, activePlugins>>
    /\ lastCall' = [op |-> "executePluginsByType", type |-> type, input |-> input,
                    outcome |-> executePluginsByType(plugins, activePlugins, type, input, config)]

InitP ==
    /\ InitLayers(DefaultLayerConfig)
    /\ InitCurriculum
    /\ InitPlugins
    /\ InitHealth
    /\ InitModel(DefaultRefinementConfig)
    /\ InitOptimization(DefaultOptimizationThreshold)
    /\ InitEngine(DefaultProfile, DefaultInferenceConfig)
    /\ lastCall = NoCall

NextP ==
    \/ \E id \in CustomPluginIds \cup {"sharpen"} : \E p \in PluginsFor(id) : RegisterPlugin(p)
    \/ \E id \in CustomPluginIds : CreatePlugin(id, "attention", "d", "none", NoConfig)
    \/ \E id \in CallIds : ActivatePlugin(id)
    \/ \E id \in CallIds : DeactivatePlugin(id)
    \/ \E id \in CallIds : RemovePlugin(id)
    \/ \E id \in CallIds, input \in Inputs, config \in Configs : ExecutePlugin(id, input, config)
    \/ \E type \in {"postprocessor", "preprocessor"}, input \in Inputs, config \in Configs :
           ExecutePluginsByType(type, input, config)

SpecP == InitP /\ [][NextP]_vars

\* the Health Monitor alone
OnAlert ==
    /\ Len(alertCallbacks) < MaxCallbacks
    /\ alertCallbacks' = Append(alertCallbacks, Len(alertCallbacks) + 1)
    /\ lastCall' = [op |-> "onAlert"]
    /\ UNCHANGED <<healthThresholds, outputHistory, baselineMetrics, monitorCalls>>
    /\ UNCHANGED <<layerVars, curriculumVars, pluginVars, modelVars, optVars, engineVars>>

\* the outputs settle after the first MaxVariedOutputs calls
OutputAllowed(output, expectedPattern) ==
    IF monitorCalls < MaxVariedOutputs THEN TRUE
    ELSE /\ output = outputHistory[Len(outputHistory)].output
         /\ expectedPattern = outputHistory[Len(outputHistory)].expectedPattern

MonitorOutput(output, expectedPattern) ==
    /\ monitorCalls < MaxMonitorCalls
    /\ OutputAllowed(output, expectedPattern)
    /\ MonitorEffect(output, expectedPattern)
    /\ UNCHANGED <<layerVars, curriculumVars, pluginVars, modelVars, optVars, engineVars>>

InitH ==
    /\ InitLayers(DefaultLayerConfig)
    /\ InitCurriculum
    /\ InitPlugins
    /\ InitHealth
    /\ InitModel(DefaultRefinementConfig)
    /\ InitOptimization(DefaultOptimizationThreshold)
    /\ InitEngine(DefaultProfile, DefaultInferenceConfig)
    /\ lastCall = NoCall

NextH ==
    \/ OnAlert
    \/ \E o \in Outputs, e \in ExpectedPatterns : MonitorOutput(o, e)

SpecH == InitH /\ [][NextH]_vars

\* the Health Monitor over a short session of string and buffer outputs, with reports
\* and baseline resets

\* thresholds callers construct the monitor with: the defaults, and a drift limit of 0.05
MonitorThresholds ==
    {DefaultHealthThresholds, [DefaultHealthThresholds EXCEPT !.maxDriftScore = 5]}

\* the monitored samples: a string and a buffer without expected pattern, and a string
\* that shares nothing with its expected pattern
Samples ==
    { [output |-> "a", expectedPattern |-> NoPattern],
      [output |-> "buf1", expectedPattern |-> NoPattern],
      [output |-> "b", expectedPattern |-> "a"] }

\* bound of the session: the number of monitorOutput calls
MaxSamples == 12

MonitorSample(output, expectedPattern) ==
    /\ monitorCalls < MaxSamples
    /\ OutputAllowed(output, expectedPattern)
    /\ MonitorEffect(output, expectedPattern)
    /\ UNCHANGED <<layerVars, curriculumVars, pluginVars, modelVars, optVars, engineVars>>

GetHealthReport ==
    /\ lastCall' = [op |-> "getHealthReport",
                    report |-> getHealthReport(outputHistory, baselineMetrics)]
    /\ UNCHANGED healthVars
    /\ UNCHANGED <<layerVars, curriculumVars, pluginVars, modelVars, optVars, engineVars>>

ResetBaseline ==
    /\ baselineMetrics' = resetBaseline(outputHistory, baselineMetrics)
    /\ lastCall' = [op |-> "resetBaseline"]
    /\ UNCHANGED <<healthThresholds, outputHistory, alertCallbacks, monitorCalls>>
    /\ UNCHANGED <<layerVars, curriculumVars, pluginVars, modelVars, optVars, engineVars>>

InitM ==
    /\ InitLayers(DefaultLayerConfig)
    /\ InitCurriculum
    /\ InitPlugins
    /\ \E th \in MonitorThresholds : NewMonitor(th)
    /\ InitModel(DefaultRefinementConfig)
    /\ InitOptimization(DefaultOptimizationThreshold)
    /\ InitEngine(DefaultProfile, DefaultInferenceConfig)
    /\ lastCall = NoCall

NextM ==
    \/ OnAlert
    \/ \E s \in Samples : MonitorSample(s.output, s.expectedPattern)
    \/ GetHealthReport
    \/ ResetBaseline

SpecM == InitM /\ [][NextM]_vars

\* the Health Monitor fed with image buffers only

\* distinct image buffers, by name: the n-th call that brings a new output brings Buffers[n]
Buffers ==
    << "buf1", "buf2", "buf3", "buf4", "buf5", "buf6", "buf7", "buf8", "buf9", "buf10",
       "buf11", "buf12", "buf13" >>

\* bound of the buffer session: the number of monitorOutput calls
MaxBufferSamples == 11

\* monitorOutput of a buffer never seen before, or of the previous call's buffer again
MonitorBuffer(fresh, expectedPattern) ==
    /\ monitorCalls < MaxBufferSamples
    /\ IF monitorCalls < MaxVariedOutputs THEN TRUE
       ELSE expectedPattern = outputHistory[Len(outputHistory)].expectedPattern
    /\ MonitorEffect(IF fresh \/ outputHistory = <<>>
                     THEN Buffers[monitorCalls + 1]
                     ELSE outputHistory[Len(outputHistory)].output,
                     expectedPattern)
    /\ UNCHANGED <<layerVars, curriculumVars, pluginVars, modelVars, optVars, engineVars>>

InitB ==
    /\ InitLayers(DefaultLayerConfig)
    /\ InitCurriculum
    /\ InitPlugins
    /\ InitHealth
    /\ InitModel(DefaultRefinementConfig)
    /\ InitOptimization(DefaultOptimizationThreshold)
    /\ InitEngine(DefaultProfile, DefaultInferenceConfig)
    /\ lastCall = NoCall

NextB ==
    \/ OnAlert
    \/ \E fresh \in BOOLEAN, e \in ExpectedPatterns : MonitorBuffer(fresh, e)

SpecB == InitB /\ [][NextB]_vars

\* the Orchestrator with its Architecture Controller and Refinement Scheduler

\* initialize() up to its delay
Initialize ==
    /\ initializing < MaxPendingInitialize
    /\ initializing' = initializing + 1
    /\ UNCHANGED <<refinementConfig, initialized, calls, lastCall>>
    /\ UNCHANGED <<enableSelfOptimization, optimizeCalls>>
    /\ UNCHANGED <<layerVars, curriculumVars, pluginVars, healthVars, optVars, engineVars>>

\* initialize() after its delay
InitializeResumes ==
    /\ initializing > 0
    /\ initializing' = initializing - 1
    /\ initialized' = TRUE
    /\ UNCHANGED <<refinementConfig, calls, lastCall>>
    /\ UNCHANGED <<enableSelfOptimization, optimizeCalls>>
    /\ UNCHANGED <<layerVars, curriculumVars, pluginVars, healthVars, optVars, engineVars>>

\* generate(options) up to its first suspension, entered when the calls so far are cs
GenerateFrom(cs, resolution, words, hasCallback) ==
    IF generateThrows(initialized)
    THEN /\ calls' = Append(cs, ThrownCall(resolution, hasCallback))
         /\ UNCHANGED <<layerVars, lastCall>>
    ELSE /\ AdaptEffect(analyzeTaskComplexity(resolution, words))
         /\ lastCall' = [op |-> "adaptLayers",
                         complexity |-> analyzeTaskComplexity(resolution, words)]
         /\ calls' = Append(cs, [StartedCall(refinementConfig, resolution, hasCallback)
                                     EXCEPT !.adapted = getActiveLayerCount(layers')])

\* generate(options), called by the user
Generate(resolution, words, hasCallback) ==
    /\ Len(calls) < MaxGenerateCalls
    /\ GenerateFrom(calls, resolution, words, hasCallback)
    /\ UNCHANGED <<refinementConfig, initialized, initializing>>
    /\ UNCHANGED <<enableSelfOptimization, optimizeCalls>>
    /\ UNCHANGED <<curriculumVars, pluginVars, healthVars, optVars, engineVars>>

\* the pass call k awaits delivers its image and the call runs on to its next suspension
GeneratorReturns(k, stats) ==
    /\ k \in 1..Len(calls)
    /\ Suspended(calls[k])
    /\ calls' = [calls EXCEPT ![k] = ResumedCall(refinementConfig, calls[k], stats,
                                                 getActiveLayerCount(layers))]
    /\ UNCHANGED <<refinementConfig, initialized, initializing, lastCall>>
    /\ UNCHANGED <<enableSelfOptimization, optimizeCalls>>
    /\ UNCHANGED <<layerVars, curriculumVars, pluginVars, healthVars, optVars, engineVars>>

\* the pass call k awaits fails, and generate rejects
GeneratorFails(k) ==
    /\ k \in 1..Len(calls)
    /\ Suspended(calls[k])
    /\ calls' = [calls EXCEPT ![k] = FailedCall(calls[k])]
    /\ UNCHANGED <<refinementConfig, initialized, initializing, lastCall>>
    /\ UNCHANGED <<enableSelfOptimization, optimizeCalls>>
    /\ UNCHANGED <<layerVars, curriculumVars, pluginVars, healthVars, optVars, engineVars>>

InitG ==
    /\ \E cfg \in ModelLayerConfigs : InitLayers(cfg)
    /\ InitCurriculum
    /\ InitPlugins
    /\ InitHealth
    /\ \E cfg \in RefinementConfigs : InitModel(cfg)
    /\ InitOptimization(DefaultOptimizationThreshold)
    /\ InitEngine(DefaultProfile, DefaultInferenceConfig)
    /\ lastCall = NoCall

NextG ==
    \/ Initialize
    \/ InitializeResumes
    \/ \E o \in Requests : Generate(o.resolution, o.words, o.hasCallback)
    \/ \E k \in 1..MaxGenerateCalls, stats \in ImageStats : GeneratorReturns(k, stats)
    \/ \E k \in 1..MaxGenerateCalls : GeneratorFails(k)

SpecG == InitG /\ [][NextG]_vars

\* the Orchestrator constructed with a zero-length scale ladder
EmptyLadderConfig == [scales |-> <<>>, qualityThreshold |-> 5100]

InitZ ==
    /\ \E cfg \in ModelLayerConfigs : InitLayers(cfg)
    /\ InitCurriculum
    /\ InitPlugins
    /\ InitHealth
    /\ InitModel(EmptyLadderConfig)
    /\ InitOptimization(DefaultOptimizationThreshold)
    /\ InitEngine(DefaultProfile, DefaultInferenceConfig)
    /\ lastCall = NoCall

SpecZ == InitZ /\ [][NextG]_vars

\* the Optimization Loop alone

\* runOptimizationCycle whose benchmarks measure metrics
RunOptimizationCycle(metrics) ==
    /\ optState.generation < MaxGenerations
    /\ optState' = CycleState(optState, metrics, optimizationThreshold)
    /\ benchmarkHistory' = Append(benchmarkHistory, metrics)
    /\ lastCall' = [op |-> "runOptimizationCycle", metrics |-> metrics, outcome |-> "returned",
                    improvement |-> calculateImprovement(metrics, optState.bestMetrics),
                    before |-> optState]
    /\ UNCHANGED optimizationThreshold
    /\ UNCHANGED <<layerVars, curriculumVars, pluginVars, healthVars, modelVars, engineVars>>

\* runOptimizationCycle whose evaluator rejects for a test case: the await on
\* runBenchmarks rejects before any assignment
RunOptimizationCycleFails ==
    /\ optState.generation < MaxGenerations
    /\ lastCall' = [op |-> "runOptimizationCycle", outcome |-> "threw", before |-> optState]
    /\ UNCHANGED optVars
    /\ UNCHANGED <<layerVars, curriculumVars, pluginVars, healthVars, modelVars, engineVars>>

InitO ==
    /\ InitLayers(DefaultLayerConfig)
    /\ InitCurriculum
    /\ InitPlugins
    /\ InitHealth
    /\ InitModel(DefaultRefinementConfig)
    /\ \E t \in OptimizationThresholds : InitOptimization(t)
    /\ InitEngine(DefaultProfile, DefaultInferenceConfig)
    /\ lastCall = NoCall

NextO ==
    \/ \E m \in MetricSamples : RunOptimizationCycle(m)
    \/ RunOptimizationCycleFails

SpecO == InitO /\ [][NextO]_vars

\* the Orchestrator's optimize(): the Orchestrator and the Optimization Loop together

\* bound of the optimize model
MaxOptimizeCalls == 2

\* a benchmark over the first test case alone
TestCases_FirstOnly == <<[resolution |-> "preview", words |-> 4]>>

\* optimize's testCases: the resolution and the number of words of each prompt
TestCases ==
    << [resolution |-> "preview", words |-> 4], [resolution |-> "standard", words |-> 4] >>

\* the optimize call that found self-optimization disabled and returned
DisabledOptimize == [pc |-> "disabled", invoked |-> <<>>]

\* optimize up to the first await of runBenchmarks: modelFn(testCases[0]) ran as
\* generate call k, which threw on its guard or suspended
StartedOptimize(k, threw) ==
    [pc |-> IF threw THEN "failed" ELSE "benchmark", invoked |-> <<k>>]

\* a loop that counts the rejected cycle as a generation
RejectedCycle_Counted(st) == [st EXCEPT !.generation = @ + 1]

\* the loop's state when the await on runBenchmarks rejects: no assignment was reached
RejectedCycle(st) == st

\* the optimize calls whose runBenchmarks awaits generate call k
Awaiting(k) ==
    { o \in 1..Len(optimizeCalls) :
        /\ optimizeCalls[o].pc = "benchmark"
        /\ optimizeCalls[o].invoked[Len(optimizeCalls[o].invoked)] = k }

\* what the benchmarks of the optimize model measure: the generate calls take more
\* than 100 ms each, so speed is 0; no heap reading, so memoryEfficiency is 1
BenchmarkSamples ==
    { m \in MetricSamples : m.speed = 0 /\ m.memoryEfficiency = 100 /\ m.consistency = 70 }

\* optimize() up to its first suspension
Optimize ==
    /\ Len(optimizeCalls) < MaxOptimizeCalls
    /\ IF ~enableSelfOptimization
       THEN /\ optimizeCalls' = Append(optimizeCalls, DisabledOptimize)
            /\ UNCHANGED <<calls, layerVars, lastCall, optState>>
       ELSE /\ GenerateFrom(calls, TestCases[1].resolution, TestCases[1].words, FALSE)
            /\ optimizeCalls' = Append(optimizeCalls,
                                       StartedOptimize(Len(calls) + 1, generateThrows(initialized)))
            /\ optState' = IF generateThrows(initialized) THEN RejectedCycle(optState)
                                                          ELSE optState
    /\ UNCHANGED <<optimizationThreshold, benchmarkHistory>>
    /\ UNCHANGED <<refinementConfig, initialized, initializing, enableSelfOptimization>>
    /\ UNCHANGED <<curriculumVars, pluginVars, healthVars, engineVars>>

\* a pass delivers its image to a generate call that suspends again on its next pass
GeneratorResumes(k, stats) ==
    /\ k \in 1..Len(calls)
    /\ Suspended(calls[k])
    /\ ResumedCall(refinementConfig, calls[k], stats, getActiveLayerCount(layers)).pc
          # "returned"
    /\ GeneratorReturns(k, stats)

\* generate call k returns to runBenchmarks, which calls modelFn on the next test case
BenchmarkContinues(k, stats) ==
    /\ k \in 1..Len(calls)
    /\ Suspended(calls[k])
    /\ Awaiting(k) # {}
    /\ LET resumed == ResumedCall(refinementConfig, calls[k], stats, getActiveLayerCount(layers))
           o == CHOOSE o \in Awaiting(k) : TRUE
           next == Len(optimizeCalls[o].invoked) + 1
       IN /\ resumed.pc = "returned"
          /\ next <= Len(TestCases)
          /\ GenerateFrom([calls EXCEPT ![k] = resumed],
                          TestCases[next].resolution, TestCases[next].words, FALSE)
          /\ optimizeCalls' =
                 [optimizeCalls EXCEPT ![o].invoked = Append(@, Len(calls) + 1),
                                       ![o].pc = IF generateThrows(initialized)
                                                 THEN "failed" ELSE "benchmark"]
          /\ optState' = IF generateThrows(initialized) THEN RejectedCycle(optState)
                                                        ELSE optState
    /\ UNCHANGED <<optimizationThreshold, benchmarkHistory>>
    /\ UNCHANGED <<refinementConfig, initialized, initializing, enableSelfOptimization>>
    /\ UNCHANGED <<curriculumVars, pluginVars, healthVars, engineVars>>

\* generate call k returns to runBenchmarks for the last test case: the benchmarks
\* measure metrics, runOptimizationCycle updates the loop and optimize returns
BenchmarkCompletes(k, stats, metrics) ==
    /\ k \in 1..Len(calls)
    /\ Suspended(calls[k])
    /\ Awaiting(k) # {}
    /\ LET resumed == ResumedCall(refinementConfig, calls[k], stats, getActiveLayerCount(layers))
           o == CHOOSE o \in Awaiting(k) : TRUE
       IN /\ resumed.pc = "returned"
          /\ Len(optimizeCalls[o].invoked) >= Len(TestCases)
          /\ calls' = [calls EXCEPT ![k] = resumed]
          /\ optimizeCalls' = [optimizeCalls EXCEPT ![o].pc = "returned"]
    /\ optState' = CycleState(optState, metrics, optimizationThreshold)
    /\ benchmarkHistory' = Append(benchmarkHistory, metrics)
    /\ UNCHANGED <<optimizationThreshold, lastCall>>
    /\ UNCHANGED <<refinementConfig, initialized, initializing, enableSelfOptimization>>
    /\ UNCHANGED <<layerVars, curriculumVars, pluginVars, healthVars, engineVars>>

\* the pass fails under a generate call runBenchmarks awaits: generate, modelFn,
\* runBenchmarks, runOptimizationCycle and optimize reject in turn
BenchmarkFails(k) ==
    /\ k \in 1..Len(calls)
    /\ Suspended(calls[k])
    /\ Awaiting(k) # {}
    /\ calls' = [calls EXCEPT ![k] = FailedCall(calls[k])]
    /\ optimizeCalls' = [optimizeCalls EXCEPT ![CHOOSE o \in Awaiting(k) : TRUE].pc = "failed"]
    /\ optState' = RejectedCycle(optState)
    /\ UNCHANGED <<optimizationThreshold, benchmarkHistory, lastCall>>
    /\ UNCHANGED <<refinementConfig, initialized, initializing, enableSelfOptimization>>
    /\ UNCHANGED <<layerVars, curriculumVars, pluginVars, healthVars, engineVars>>

\* the ladder of the optimize model: two scales, threshold 0.5
ShortLadderConfig == [scales |-> <<50, 100>>, qualityThreshold |-> 3000]

InitS ==
    /\ \E cfg \in ModelLayerConfigs : cfg.expansionThreshold = 30 /\ InitLayers(cfg)
    /\ InitCurriculum
    /\ InitPlugins
    /\ InitHealth
    /\ \E selfOptimization \in BOOLEAN : InitOrchestrator(ShortLadderConfig, selfOptimization)
    /\ InitOptimization(DefaultOptimizationThreshold)
    /\ InitEngine(DefaultProfile, DefaultInferenceConfig)
    /\ lastCall = NoCall

NextS ==
    \/ Initialize
    \/ InitializeResumes
    \/ Optimize
    \/ \E k \in 1..(2 * MaxOptimizeCalls), stats \in ImageStats :
          GeneratorResumes(k, stats)
    \/ \E k \in 1..(2 * MaxOptimizeCalls), stats \in ImageStats :
          BenchmarkContinues(k, stats)
    \/ \E k \in 1..(2 * MaxOptimizeCalls), stats \in ImageStats,
          metrics \in BenchmarkSamples : BenchmarkCompletes(k, stats, metrics)
    \/ \E k \in 1..(2 * MaxOptimizeCalls) : BenchmarkFails(k)

SpecS == InitS /\ [][NextS]_vars

\* the Execution Engine alone

\* executeInference(input, modelFn) up to its first suspension
ExecuteInference(input) ==
    /\ Len(inferences) < MaxInferences
    /\ inferences' = Append(inferences,
                            StartedInference(engineProfile, engineConfig, memoryUsage, input))
    /\ lastCall' = [op |-> "executeInference"]
    /\ UNCHANGED <<engineProfile, engineConfig, memoryUsage, inferenceHistory>>
    /\ UNCHANGED <<layerVars, curriculumVars, pluginVars, healthVars, modelVars, optVars>>

\* the modelFn call that inference k awaits delivers after latency ms
ModelFnReturns(k, latency) ==
    /\ k \in 1..Len(inferences)
    /\ inferences[k].pc \in {"model", "chunk"}
    /\ inferences' = [inferences EXCEPT ![k] = DeliveredInference(inferences[k])]
    /\ inferenceHistory' = IF inferences[k].pc = "model"
                           THEN trackInference(inferenceHistory, latency, memoryUsage)
                           ELSE inferenceHistory
    /\ lastCall' = [op |-> "modelFn"]
    /\ UNCHANGED <<engineProfile, engineConfig, memoryUsage>>
    /\ UNCHANGED <<layerVars, curriculumVars, pluginVars, healthVars, modelVars, optVars>>

\* the modelFn call that inference k awaits fails
ModelFnFails(k) ==
    /\ k \in 1..Len(inferences)
    /\ inferences[k].pc \in {"model", "chunk"}
    /\ inferences' = [inferences EXCEPT ![k] = FailedInference(inferences[k])]
    /\ lastCall' = [op |-> "modelFn"]
    /\ UNCHANGED <<engineProfile, engineConfig, memoryUsage, inferenceHistory>>
    /\ UNCHANGED <<layerVars, curriculumVars, pluginVars, healthVars, modelVars, optVars>>

\* inference k comes back from its yield between two chunks
YieldResumes(k) ==
    /\ k \in 1..Len(inferences)
    /\ inferences[k].pc = "yield"
    /\ inferences' = [inferences EXCEPT ![k] = NextChunk(inferences[k])]
    /\ lastCall' = [op |-> "yield"]
    /\ UNCHANGED <<engineProfile, engineConfig, memoryUsage, inferenceHistory>>
    /\ UNCHANGED <<layerVars, curriculumVars, pluginVars, healthVars, modelVars, optVars>>

OptimizeSettings ==
    /\ engineConfig' = optimizeSettings(engineConfig, inferenceHistory, engineProfile)
    /\ lastCall' = [op |-> "optimizeSettings"]
    /\ UNCHANGED <<engineProfile, memoryUsage, inferenceHistory, inferences>>
    /\ UNCHANGED <<layerVars, curriculumVars, pluginVars, healthVars, modelVars, optVars>>

InitE ==
    /\ InitLayers(DefaultLayerConfig)
    /\ InitCurriculum
    /\ InitPlugins
    /\ InitHealth
    /\ InitModel(DefaultRefinementConfig)
    /\ InitOptimization(DefaultOptimizationThreshold)
    /\ \E config \in InferenceConfigs : InitEngine(EdgeProfile, config)
    /\ lastCall = NoCall

NextE ==
    \/ \E input \in EngineInputs : ExecuteInference(input)
    \/ \E k \in 1..MaxInferences, latency \in Latencies : ModelFnReturns(k, latency)
    \/ \E k \in 1..MaxInferences : ModelFnFails(k)
    \/ \E k \in 1..MaxInferences : YieldResumes(k)
    \/ OptimizeSettings

SpecE == InitE /\ [][NextE]_vars

\* ------------------------------------------------------------ claims

\* C1: after every adaptLayers call on a controller built with minLayers <= maxLayers,
\* the number of active layers lies in [minLayers, maxLayers].
C1_StageBounds ==
    /\ layerConfig.minLayers <= getActiveLayerCount(layers)
    /\ getActiveLayerCount(layers) <= layerConfig.maxLayers

\* an adapt call found the average above the expansion threshold with the controller
\* at maxLayers, after earlier calls had expanded it and contracted it again
C1_Witness ==
    /\ lastCall.op = "adaptLayers"
    /\ layerConfig.minLayers < layerConfig.maxLayers
    /\ AvgAbove(complexityHistory, layerConfig.expansionThreshold)
    /\ getActiveLayerCount(layers) = layerConfig.maxLayers
    /\ \E i \in 1..Len(layers) : ~layers[i].active

Deactivated(before, after) ==
    { i \in 1..Len(before) : before[i].active /\ ~after[i].active }

\* C2: one adaptLayers call changes the active count by at most one and performs at
\* most one step: either one layer is appended, or one layer is deactivated, or nothing
\* happens; never an append together with a deactivation.
C2_SingleStep ==
    [][ LET delta == getActiveLayerCount(layers') - getActiveLayerCount(layers)
            appended == Len(layers') - Len(layers)
            off == Deactivated(layers, layers')
        IN /\ delta \in {-1, 0, 1}
           /\ appended \in {0, 1}
           /\ Cardinality(off) <= 1
           /\ ~(appended = 1 /\ off # {})
           /\ \A i \in 1..Len(layers) : i \notin off => layers'[i] = layers[i]
           /\ appended = 1 => delta = 1
           /\ off # {} => delta = -1 ]_vars

\* an adapt call ran while the average was above the expansion threshold and below the
\* contraction threshold at once (thresholds crossed), with room to grow and to shrink
C2_Witness ==
    /\ lastCall.op = "adaptLayers"
    /\ AvgAbove(complexityHistory, layerConfig.expansionThreshold)
    /\ AvgBelow(complexityHistory, layerConfig.contractionThreshold)
    /\ getActiveLayerCount(layers) > layerConfig.minLayers
    /\ Len(layers) > layerConfig.minLayers
    /\ \E i \in 1..Len(layers) : ~layers[i].active

\* C3: across updateProgress calls currentStageIndex never decreases, grows by at most one
\* per call and never exceeds 4 (Master).
C3_StageMonotone ==
    [][ /\ currentStageIndex' >= currentStageIndex
        /\ currentStageIndex' <= currentStageIndex + 1
        /\ currentStageIndex' <= 4 ]_vars

\* an updateProgress call made at Master found the advance condition satisfied
C3_Witness ==
    /\ lastCall.op = "updateProgress"
    /\ lastCall.stageBefore = 4
    /\ progress.readyForNextStage
    /\ currentStageIndex = 4

RegisteredIds == { id \in DOMAIN plugins : plugins[id] # NoPlugin }

\* C7: in every reachable state of the registry the active set is a subset of the
\* registered ids; a removePlugin of a registered id leaves it neither registered nor
\* active, and an activatePlugin of an unregistered id does not add it.
C7_ActiveSubsetOfRegistered ==
    /\ Range(activePlugins) \subseteq RegisteredIds
    /\ (lastCall.op = "removePlugin" /\ lastCall.result)
          => (lastCall.id \notin RegisteredIds /\ ~SetHas(activePlugins, lastCall.id))
    /\ (lastCall.op = "activatePlugin" /\ ~lastCall.result)
          => ~SetHas(activePlugins, lastCall.id)

\* a removePlugin took an active plugin out of the registry while another stayed active
C7_Witness ==
    /\ lastCall.op = "removePlugin"
    /\ lastCall.result
    /\ lastCall.wasActive
    /\ Len(activePlugins) = 1

\* C8: executePlugin on an id that is unregistered, or registered but not active, throws
\* without calling the plugin's validate or execute, and changes neither the registry
\* nor the active set.
C8_ExecuteGuard ==
    [][ lastCall'.op = "executePlugin" =>
          /\ plugins' = plugins
          /\ activePlugins' = activePlugins
          /\ lastCall'.registered = IsRegistered(plugins, lastCall'.id)
          /\ lastCall'.active = SetHas(activePlugins, lastCall'.id)
          /\ (~IsRegistered(plugins, lastCall'.id) \/ ~SetHas(activePlugins, lastCall'.id))
                => /\ lastCall'.outcome.threw
                   /\ lastCall'.outcome.validateCalls = <<>>
                   /\ lastCall'.outcome.executeCalls = <<>> ]_vars

\* scenario 3: "p1" is registered with a validator and not active, another plugin is
\* active, and executePlugin("p1", input) has just thrown
C8_Witness ==
    /\ lastCall.op = "executePlugin"
    /\ lastCall.id = "p1"
    /\ lastCall.registered
    /\ ~lastCall.active
    /\ plugins["p1"].validate # "none"
    /\ activePlugins # <<>>
    /\ lastCall.outcome.threw

Occurrences(s, x) == Cardinality({ i \in 1..Len(s) : s[i] = x })

\* C9: activatePlugin on an id that is already active leaves the active set as it was,
\* order included, and listActivePlugins() holds exactly one entry for that id.
C9_ActivateIdempotent ==
    [][ (lastCall'.op = "activatePlugin" /\ SetHas(activePlugins, lastCall'.id)) =>
          /\ lastCall'.result
          /\ activePlugins' = activePlugins
          /\ Occurrences(listActivePlugins(plugins', activePlugins'), lastCall'.id) = 1 ]_vars

\* the plugin activated first of two has just been activated again and is still first
C9_Witness ==
    /\ lastCall.op = "activatePlugin"
    /\ lastCall.wasActive
    /\ lastCall.result
    /\ Len(activePlugins) = 2
    /\ activePlugins[1] = lastCall.id

\* C10: after n monitorOutput calls the window holds min(n, 100) samples, the most recent
\* ones in arrival order; after 150 calls it holds the 51st to the 150th.
C10_HealthWindow ==
    /\ Len(outputHistory) = Min(monitorCalls, 100)
    /\ \A i \in 1..Len(outputHistory) :
          outputHistory[i].timestamp = monitorCalls - Len(outputHistory) + i
    /\ monitorCalls = 150 =>
          /\ Len(outputHistory) = 100
          /\ outputHistory[1].timestamp = 51
          /\ outputHistory[100].timestamp = 150

\* 150 outputs have been fed
C10_Witness ==
    /\ lastCall.op = "monitorOutput"
    /\ monitorCalls = 150
    /\ Len(outputHistory) = 100
    /\ outputHistory[1].timestamp = 51

\* the refinement calls: generate calls that went through generateProgressive
Progressive(call) == call.pc \in {"preview", "refine"} \/ (call.pc = "returned" /\ call.resolution # "preview")

IsPrefix(s, t) == Len(s) <= Len(t) /\ s = SubSeq(t, 1, Len(s))

\* C4: generateProgressive stops at the first refinement step whose quality estimate
\* reaches qualityThreshold: the base generator is invoked once for the preview and
\* once per refinement step executed, in ladder order, and for no scale after the
\* stopping step; on a 4-scale ladder whose first estimate reaches the threshold
\* (as an estimate of 1.0 does) it is invoked exactly twice.
C4_EarlyStop ==
    \A k \in 1..Len(calls) :
        LET c == calls[k]
            n == Len(refinementConfig.scales)
            reached == { j \in 1..Len(c.estimates) : c.estimates[j] >= refinementConfig.qualityThreshold }
        IN Progressive(c) =>
            /\ IsPrefix(c.invoked, refinementConfig.scales)
            /\ Len(c.invoked) >= 1
            /\ reached \subseteq {Len(c.estimates)}
            /\ c.pc = "preview" => Len(c.invoked) = 1 /\ c.estimates = <<>>
            /\ c.pc = "refine" => Len(c.invoked) = Len(c.estimates) + 2 /\ reached = {}
            /\ c.pc = "returned" =>
                  /\ Len(c.invoked) = Len(c.estimates) + 1
                  /\ reached = {} => Len(c.invoked) = n
            /\ (n = 4 /\ 1 \in reached) => (c.pc = "returned" /\ Len(c.invoked) = 2)

\* a call on the 4-scale ladder returned after the preview and one refinement pass,
\* and another one stopped at its second refinement pass, skipping the last scale
C4_Witness ==
    /\ Len(refinementConfig.scales) = 4
    /\ \E k \in 1..Len(calls) :
          /\ calls[k].pc = "returned"
          /\ calls[k].invoked = <<25, 50>>
          /\ calls[k].estimates[1] >= refinementConfig.qualityThreshold
    /\ \E k \in 1..Len(calls) :
          /\ calls[k].pc = "returned"
          /\ calls[k].invoked = <<25, 50, 75>>
          /\ calls[k].estimates[1] < refinementConfig.qualityThreshold

NonDecreasing(s) == \A i \in 1..(Len(s) - 1) : s[i] <= s[i + 1]

\* C5: within one generate call the progress fractions delivered to the progress
\* callback are non-decreasing and every one of them lies in [0, 1].
C5_ProgressMonotone ==
    \A k \in 1..Len(calls) :
        /\ NonDecreasing(calls[k].reports)
        /\ \A i \in 1..Len(calls[k].reports) :
              0 <= calls[k].reports[i] /\ calls[k].reports[i] <= ProgressOne

\* C6: a generate call made before initialize has completed fails and changes nothing:
\* no complexity sample, no layer change, no generator pass, no progress report; once
\* initialized, generate does not fail on the guard, and the flag never falls back,
\* whatever further initialize calls do.
C6_UninitializedGuard ==
    [][ /\ (Len(calls') > Len(calls) /\ ~initialized) =>
              /\ calls' = Append(calls, calls'[Len(calls')])
              /\ calls'[Len(calls')].pc = "threw"
              /\ calls'[Len(calls')].invoked = <<>>
              /\ calls'[Len(calls')].reports = <<>>
              /\ UNCHANGED <<layerVars, curriculumVars, pluginVars, healthVars, optVars>>
              /\ UNCHANGED <<refinementConfig, initialized, initializing>>
        /\ (Len(calls') > Len(calls) /\ initialized) =>
              /\ calls'[Len(calls')].pc # "threw"
              /\ Len(calls'[Len(calls')].invoked) = 1
        /\ \A k \in 1..Len(calls) : calls[k].pc = "threw" => calls'[k] = calls[k]
        /\ initialized => initialized'
      ]_vars

\* a call failed on the guard and left no sample behind, a later call passed the guard
\* and returned, and initialize has been called again since
C6_Witness ==
    /\ Len(calls) = 2
    /\ calls[1].pc = "threw"
    /\ calls[2].pc = "returned"
    /\ initialized
    /\ initializing > 0
    /\ Len(complexityHistory) = 1

ReturnedCalls == { k \in 1..Len(calls) : calls[k].pc = "returned" }

\* C11: by the time a generate call returns, the active post-processors have run on
\* its image and the Health Monitor has recorded the result, once per returned call.
C11_MonitoredBeforeReturn ==
    /\ monitorCalls = Cardinality(ReturnedCalls)
    /\ Len(outputHistory) = Cardinality(ReturnedCalls)

PassedCalls == { k \in 1..Len(calls) : calls[k].pc # "threw" }

ActiveCountChange == getActiveLayerCount(layers') - getActiveLayerCount(layers)

\* C12: under every interleaving of generate calls at their suspension points, the
\* adapt step of each call is atomic: the step that starts a call pushes exactly one
\* complexity sample and moves the active count by at most one, no resumption of a
\* suspended call touches the controller, and the active count stays within
\* [minLayers, maxLayers] in every state.
C12_ConcurrentAdapt ==
    [][ /\ layerConfig.minLayers <= getActiveLayerCount(layers')
        /\ getActiveLayerCount(layers') <= layerConfig.maxLayers
        /\ IF Len(calls') > Len(calls) /\ calls'[Len(calls')].pc # "threw"
           THEN /\ Len(complexityHistory') = Min(Len(complexityHistory) + 1, ComplexityWindow)
                /\ ActiveCountChange \in {-1, 0, 1}
                /\ Len(layers') - Len(layers) \in {0, 1}
                /\ layerConfig' = layerConfig
           ELSE UNCHANGED layerVars
      ]_vars

\* two calls are suspended at the same time, the later one a pass ahead of the
\* earlier one, and the two adapt steps have expanded and contracted the controller
C12_Witness ==
    /\ Len(calls) = 2
    /\ calls[1].pc = "refine" /\ calls[1].step = 1
    /\ calls[2].pc = "refine" /\ calls[2].step = 2
    /\ Len(complexityHistory) = 2
    /\ Len(layers) = layerConfig.maxLayers
    /\ getActiveLayerCount(layers) = layerConfig.minLayers

\* C13: every generate call that passes the guard pushes exactly one complexity sample,
\* whether it returns or fails in a generator pass: the history holds one sample per
\* such call, and a failure adds or removes none.
C13_OneSamplePerCall ==
    Len(complexityHistory) = Min(ComplexityWindow, Cardinality(PassedCalls))

\* one call failed in a refinement pass after its preview, another returned
C13_Witness ==
    /\ \E k \in 1..Len(calls) : calls[k].pc = "failed" /\ calls[k].step >= 1
    /\ \E k \in 1..Len(calls) : calls[k].pc = "returned"
    /\ Len(complexityHistory) = 2

CompositeScore(m) == 4 * m.quality + 3 * m.speed + 2 * m.memoryEfficiency + m.consistency

\* C15: a cycle replaces bestMetrics by the new sample and increments improvements
\* only when the weighted delta against bestMetrics exceeds +optimizationThreshold, and
\* then it does both; it increments degradations only when the delta is below
\* -optimizationThreshold; otherwise it leaves bestMetrics and both counters alone. No
\* cycle increments both counters.
C15_BestOnlyOnImprovement ==
    (lastCall.op = "runOptimizationCycle" /\ lastCall.outcome = "returned") =>
        LET before == lastCall.before
            delta == CompositeScore(lastCall.metrics) - CompositeScore(before.bestMetrics)
        IN /\ optState.currentMetrics = lastCall.metrics
           /\ IF delta > optimizationThreshold
              THEN /\ optState.bestMetrics = lastCall.metrics
                   /\ optState.improvements = before.improvements + 1
                   /\ optState.degradations = before.degradations
              ELSE /\ optState.bestMetrics = before.bestMetrics
                   /\ optState.improvements = before.improvements
                   /\ optState.degradations =
                         before.degradations + (IF delta < -optimizationThreshold THEN 1 ELSE 0)

\* with threshold 0.05, a cycle measured a gain of 0.02 over the best and changed
\* neither the best metrics nor a counter, after an improvement and a degradation
C15_Witness ==
    /\ lastCall.op = "runOptimizationCycle" /\ lastCall.outcome = "returned"
    /\ optimizationThreshold = 50
    /\ CompositeScore(lastCall.metrics) - CompositeScore(lastCall.before.bestMetrics) = 20
    /\ optState.bestMetrics # lastCall.metrics
    /\ optState.improvements >= 1
    /\ optState.degradations >= 1

AllSamples(hist, a) == \A i \in 1..Len(hist) : hist[i] = a

\* C16: an updateProgress call that finds the advance condition satisfied below the
\* terminal stage advances by exactly one stage, increments stagesCompleted by one and
\* leaves the window empty; the stage changes in no other way, and an advance needs a
\* window of 20 samples, so 20 calls separate two advances. From a fresh controller fed
\* 0.95 only, the 20th sample advances to stage 1 (no state at stage 0 holds 20 such
\* samples) and the next five leave stage 1 with stagesCompleted = 1.
C16_AdvanceOnce ==
    [][ /\ (progress'.readyForNextStage /\ currentStageIndex < 4)
              => currentStageIndex' = currentStageIndex + 1
        /\ currentStageIndex' # currentStageIndex =>
              /\ currentStageIndex' = currentStageIndex + 1
              /\ progress'.stagesCompleted = progress.stagesCompleted + 1
              /\ progress'.currentStage = currentStageIndex'
              /\ progress'.readyForNextStage
              /\ performanceHistory' = <<>>
              /\ Len(performanceHistory) >= 19
        /\ currentStageIndex' = currentStageIndex =>
              progress'.stagesCompleted = progress.stagesCompleted
        /\ (currentStageIndex' = 0 /\ AllSamples(performanceHistory', 95))
              => Len(performanceHistory') < 20
      ]_vars

\* 25 samples of 0.95 into a fresh controller: stage 1, one stage completed, and the
\* five samples fed since the advance in the window
C16_Witness ==
    /\ lastCall.op = "updateProgress"
    /\ currentStageIndex = 1
    /\ progress.stagesCompleted = 1
    /\ performanceHistory = <<95, 95, 95, 95, 95>>
    /\ ~progress.readyForNextStage

\* C17: at the terminal stage no updateProgress call changes currentStageIndex or
\* stagesCompleted, also when the advance condition holds; the call records the loss
\* and the accuracy it was given and keeps the window: the sample is appended, the
\* oldest one dropped beyond 100, and the window is not cleared.
C17_TerminalStage ==
    [][ currentStageIndex = 4 =>
            /\ currentStageIndex' = 4
            /\ progress'.stagesCompleted = progress.stagesCompleted
            /\ progress'.currentStage = progress.currentStage
            /\ progress'.totalLoss = lastCall'.loss
            /\ progress'.avgAccuracy = lastCall'.accuracy
            /\ Len(performanceHistory') = Min(Len(performanceHistory) + 1, 100)
            /\ performanceHistory'[Len(performanceHistory')] = lastCall'.accuracy
            /\ \A i \in 1..(Len(performanceHistory') - 1) :
                  performanceHistory'[i] =
                      performanceHistory[i + Len(performanceHistory) + 1 - Len(performanceHistory')]
      ]_vars

\* a call at Master found the advance condition satisfied with the window at its
\* capacity of 100
C17_Witness ==
    /\ lastCall.op = "updateProgress"
    /\ lastCall.stageBefore = 4
    /\ currentStageIndex = 4
    /\ progress.stagesCompleted = 4
    /\ progress.readyForNextStage
    /\ Len(performanceHistory) = 100

\* C18: on a fresh controller with min 4, max 12, thresholds 0.7 and 0.3, fed 0.9 on
\* every call, the active count after k calls is min(12, 4 + k): one more layer per
\* call, 12 from the eighth call on, every layer active.
C18_SteadyGrowth ==
    lastCall.steady =>
        /\ getActiveLayerCount(layers) = Min(12, 4 + lastCall.calls)
        /\ Len(layers) = Min(12, 4 + lastCall.calls)
        /\ lastCall.calls >= 8 => getActiveLayerCount(layers) = 12

\* twelve calls of 0.9: the controller reached 12 layers and the last calls, with the
\* history window full, left it there
C18_Witness ==
    /\ lastCall.op = "adaptLayers"
    /\ lastCall.steady
    /\ lastCall.calls = 12
    /\ Len(complexityHistory) = 10
    /\ getActiveLayerCount(layers) = 12

BelowThreshold(call) ==
    \A j \in 1..Len(call.estimates) : call.estimates[j] < refinementConfig.qualityThreshold

\* C19: a generateProgressive run whose quality estimates all stay below
\* qualityThreshold never stops early: when it returns, the base generator has been
\* invoked exactly once per scale, in ladder order, and the returned quality is the
\* estimate of the last pass. With the default ladder and threshold and uniform gray
\* images the estimates are 0.1, 0.2, 0.3 and the four scales are run.
C19_FullLadder ==
    \A k \in 1..Len(calls) :
        LET c == calls[k]
            n == Len(refinementConfig.scales)
        IN (Progressive(c) /\ BelowThreshold(c)) =>
              /\ Len(c.invoked) <= n
              /\ c.pc = "returned" =>
                    /\ c.invoked = refinementConfig.scales
                    /\ Len(c.estimates) = n - 1
                    /\ c.quality = IF n = 1 THEN PreviewQuality ELSE c.estimates[n - 1]
              /\ (c.estimates = <<600, 1200, 1800>> /\ refinementConfig = DefaultRefinementConfig)
                    => (c.pc = "returned" /\ c.invoked = <<25, 50, 75, 100>>)

\* a call on the default configuration was given uniform gray images at every pass
\* and returned after all four scales
C19_Witness ==
    /\ refinementConfig = DefaultRefinementConfig
    /\ \E k \in 1..Len(calls) :
          /\ calls[k].pc = "returned"
          /\ calls[k].estimates = <<600, 1200, 1800>>
          /\ calls[k].invoked = <<25, 50, 75, 100>>
          /\ calls[k].quality = 1800

\* C20: executePlugin on a registered, active plugin that defines validate consults
\* validate on every call and before execute: an input validate rejects makes the call
\* fail with the validation error and execute is not invoked; an input it accepts
\* reaches execute, once.
C20_ValidateFirst ==
    (/\ lastCall.op = "executePlugin"
     /\ lastCall.registered
     /\ lastCall.active
     /\ plugins[lastCall.id].validate # "none") =>
        /\ lastCall.outcome.validateCalls = <<lastCall.id>>
        /\ IF lastCall.input.valid
           THEN /\ ~lastCall.outcome.threw
                /\ lastCall.outcome.executeCalls = <<lastCall.id>>
           ELSE /\ lastCall.outcome.threw
                /\ lastCall.outcome.error = "input validation failed"
                /\ lastCall.outcome.executeCalls = <<>>

\* "p1" is registered with a validator and active, and executePlugin("p1", input) has
\* just failed on an input the validator rejects
C20_Witness ==
    /\ lastCall.op = "executePlugin"
    /\ lastCall.id = "p1"
    /\ lastCall.registered
    /\ lastCall.active
    /\ plugins["p1"].validate = "checks"
    /\ ~lastCall.input.valid
    /\ lastCall.outcome.threw
    /\ lastCall.outcome.executeCalls = <<>>

\* C21: activatePlugin and deactivatePlugin on an unregistered id are both reported as
\* errors and leave the active set unchanged; deactivatePlugin on a registered id that
\* is not active changes nothing and is not reported as an error, so that the caller
\* can tell the two deactivate cases apart.
C21_UnregisteredIsError ==
    [][ /\ (lastCall'.op = "activatePlugin" /\ ~IsRegistered(plugins, lastCall'.id)) =>
              /\ lastCall'.level = "error"
              /\ ~lastCall'.result
              /\ UNCHANGED pluginVars
        /\ (lastCall'.op = "deactivatePlugin" /\ ~IsRegistered(plugins, lastCall'.id)) =>
              /\ lastCall'.level = "error"
              /\ UNCHANGED pluginVars
        /\ (lastCall'.op = "deactivatePlugin" /\ IsRegistered(plugins, lastCall'.id)
                /\ ~SetHas(activePlugins, lastCall'.id)) =>
              /\ lastCall'.level # "error"
              /\ UNCHANGED pluginVars
      ]_vars

\* the active plugins of a type, oldest activation first
ActiveOfType(type) ==
    LET OfType(id) == plugins[id].type = type IN SelectSeq(activePlugins, OfType)

\* the bodies of the plugins in ids, appended to a trail in order
RECURSIVE TrailAfter(_, _)
TrailAfter(trail, ids) ==
    IF ids = <<>> THEN trail
    ELSE TrailAfter(Append(trail, plugins[Head(ids)].body), Tail(ids))

\* C22: executePluginsByType applies exactly the active plugins of the type, each
\* once, as a left fold in the order of their activation, a plugin that was
\* deactivated and activated again coming last; plugins of other types and inactive
\* plugins are not invoked, and with no active plugin of the type the input comes back
\* unchanged. A call that a plugin fails has invoked a proper prefix of that order.
C22_FoldInActivationOrder ==
    [][ /\ lastCall'.op = "executePluginsByType" =>
              LET o == lastCall'.outcome
                  pipe == ActiveOfType(lastCall'.type)
              IN /\ UNCHANGED pluginVars
                 /\ ~o.threw =>
                       /\ o.executeCalls = pipe
                       /\ o.output.trail = TrailAfter(lastCall'.input.trail, pipe)
                       /\ o.output.valid = lastCall'.input.valid
                 /\ o.threw =>
                       /\ IsPrefix(o.executeCalls, pipe)
                       /\ Len(o.executeCalls) < Len(pipe)
                 /\ pipe = <<>> => (~o.threw /\ o.output = lastCall'.input)
        /\ (lastCall'.op = "activatePlugin" /\ lastCall'.result) =>
              IF SetHas(activePlugins, lastCall'.id)
              THEN activePlugins' = activePlugins
              ELSE activePlugins' = Append(activePlugins, lastCall'.id)
        /\ (lastCall'.op = "deactivatePlugin" /\ lastCall'.result) =>
              /\ ~SetHas(activePlugins', lastCall'.id)
              /\ Len(activePlugins') = Len(activePlugins) - 1
              /\ \A i, j \in 1..Len(activePlugins') :
                     i < j => \E a, b \in 1..Len(activePlugins) :
                                 /\ a < b
                                 /\ activePlugins[a] = activePlugins'[i]
                                 /\ activePlugins[b] = activePlugins'[j]
      ]_vars

\* two post-processors are active, the default one activated last, and the fold ran
\* the custom one first and handed its output to the default one
C22_Witness ==
    /\ activePlugins = <<"p1", "sharpen">>
    /\ plugins["p1"].type = "postprocessor"
    /\ plugins["sharpen"].type = "postprocessor"
    /\ lastCall.op = "executePluginsByType"
    /\ lastCall.type = "postprocessor"
    /\ ~lastCall.outcome.threw
    /\ lastCall.outcome.executeCalls = <<"p1", "sharpen">>
    /\ lastCall.outcome.output.trail = <<plugins["p1"].body, "sharpen">>

\* C23: when the base generator fails at a pass, the preview or a refinement scale,
\* the generate call fails there: it invokes no further pass (no later scale, no
\* retry), delivers no further progress report, the final 1.0 among them, returns
\* nothing, and stays failed.
C23_FailurePropagates ==
    [][ \A k \in 1..Len(calls) :
          /\ calls[k].pc = "failed" => calls'[k] = calls[k]
          /\ (calls[k].pc # "failed" /\ calls'[k].pc = "failed") =>
                /\ Suspended(calls[k])
                /\ calls'[k].invoked = calls[k].invoked
                /\ calls'[k].reports = calls[k].reports
                /\ calls'[k].estimates = calls[k].estimates
                /\ calls'[k].layersUsed = 0 /\ calls'[k].memoryUsed = 0
                /\ ProgressOne \notin Range(calls'[k].reports)
          /\ (Suspended(calls[k]) /\ Suspended(calls'[k])) =>
                \/ calls'[k] = calls[k]
                \/ /\ Len(calls'[k].invoked) = Len(calls[k].invoked) + 1
                   /\ calls'[k].quality > 0
      ]_vars

\* one call failed at its second refinement pass, after two progress reports and the
\* preview's; another failed at its first pass
C23_Witness ==
    /\ Len(calls) = 2
    /\ calls[1].pc = "failed"
    /\ Len(calls[1].invoked) = 3
    /\ Len(calls[1].reports) = 3
    /\ calls[2].pc = "failed"
    /\ Len(calls[2].invoked) = 1

\* C24: the monitor's baseline is captured once, by the first monitorOutput call, from
\* the metrics that call computed; no later monitorOutput call and no getHealthReport
\* call changes it, only resetBaseline does.
C24_BaselineOnce ==
    [][ /\ monitorCalls' = monitorCalls + 1 =>
              IF baselineMetrics = NoBaseline
              THEN baselineMetrics' = [set |-> TRUE, metrics |-> lastCall'.metrics]
              ELSE baselineMetrics' = baselineMetrics
        /\ lastCall'.op = "getHealthReport" =>
              /\ baselineMetrics' = baselineMetrics
              /\ lastCall'.report.baseline = baselineMetrics
        /\ baselineMetrics' # baselineMetrics =>
              \/ lastCall'.op = "resetBaseline"
              \/ monitorCalls = 0 /\ monitorCalls' = 1 /\ baselineMetrics = NoBaseline
        /\ (monitorCalls' > 0 /\ lastCall'.op # "resetBaseline") =>
              baselineMetrics' # NoBaseline
      ]_vars

\* after several monitored outputs a report is taken: its current metrics have moved
\* away from the baseline, which still holds the metrics of a one-entry history
C24_Witness ==
    /\ monitorCalls >= 3
    /\ lastCall.op = "getHealthReport"
    /\ baselineMetrics # NoBaseline
    /\ baselineMetrics.metrics.outputStability = Frac(1, 1)
    /\ lastCall.report.baseline = baselineMetrics
    /\ lastCall.report.current # baselineMetrics.metrics

\* the conditions the metrics m violate under the thresholds th
Violated(m, th) ==
    { c \in {"stability", "hallucination", "drift", "confidence", "anomaly"} :
        CASE c = "stability" -> 100 * m.outputStability.n < th.minStability * m.outputStability.d
          [] c = "hallucination" ->
                 100 * m.hallucinationRate.n > th.maxHallucinationRate * m.hallucinationRate.d
          [] c = "drift" -> 100 * m.driftScore.n > th.maxDriftScore * m.driftScore.d
          [] c = "confidence" ->
                 100 * m.confidenceLevel.n < th.minConfidence * m.confidenceLevel.d
          [] c = "anomaly" -> m.anomalyDetected }

SeverityOf(c) ==
    CASE c \in {"hallucination", "anomaly"} -> "high"
      [] c \in {"drift", "stability"} -> "medium"
      [] c = "confidence" -> "low"

\* C25: a monitorOutput call invokes every registered alert callback exactly once per
\* violated condition before it returns: the invocations number (violated conditions)
\* times (registered callbacks), none when nothing is violated, and each carries the
\* severity of its condition (hallucination and anomaly high, drift and stability
\* medium, confidence low).
C25_AlertPerViolation ==
    lastCall.op = "monitorOutput" =>
        LET alerts == lastCall.alerts
            violated == Violated(lastCall.metrics, healthThresholds)
        IN /\ Len(alerts) = Cardinality(violated) * Len(alertCallbacks)
           /\ \A c \in violated : \A cb \in 1..Len(alertCallbacks) :
                  Cardinality({ i \in 1..Len(alerts) :
                                  alerts[i].issue = c /\ alerts[i].callback = alertCallbacks[cb] }) = 1
           /\ \A i \in 1..Len(alerts) :
                  /\ alerts[i].issue \in violated
                  /\ alerts[i].severity = SeverityOf(alerts[i].issue)

\* with two callbacks registered, a call found drift, hallucination and low confidence
\* and made six invocations
C25_Witness ==
    /\ lastCall.op = "monitorOutput"
    /\ Len(alertCallbacks) = 2
    /\ Violated(lastCall.metrics, healthThresholds) = {"hallucination", "drift", "confidence"}
    /\ Len(lastCall.alerts) = 6

CompletedInferences == { k \in 1..Len(inferences) : inferences[k].pc = "returned" }

\* C26: every executeInference call that completes has appended exactly one record to
\* inferenceHistory, on the direct path and on the chunked path alike, and the history
\* never holds more than 100 records.
C26_RecordPerCall ==
    /\ Len(inferenceHistory) = Min(InferenceWindow, Cardinality(CompletedInferences))
    /\ Len(inferenceHistory) <= InferenceWindow

\* C27: with a zero-length scale ladder generateProgressive and generatePreview raise
\* a configuration error: the base generator is never invoked with an undefined scale,
\* and no generate call returns a result as if generation had succeeded.
C27_EmptyLadderRejected ==
    Len(refinementConfig.scales) = 0 =>
        \A k \in 1..Len(calls) :
            /\ UndefinedScale \notin Range(calls[k].invoked)
            /\ calls[k].pc # "returned"

\* C28: the layer list is append-only. No adaptLayers call removes a layer, so
\* totalLayers never decreases; a contraction only clears the active flag of one
\* layer, which keeps its place, id and type; and the layer ids stay pairwise distinct
\* through every sequence of expansions and contractions.
C28_AppendOnly ==
    [][ /\ Len(layers') >= Len(layers)
        /\ \A i \in 1..Len(layers) :
              \/ layers'[i] = layers[i]
              \/ /\ layers[i].active
                 /\ layers'[i] = [layers[i] EXCEPT !.active = FALSE]
        /\ Cardinality({ i \in 1..Len(layers) : layers'[i] # layers[i] }) <= 1
        /\ \A i, j \in 1..Len(layers') : i # j => layers'[i].id # layers'[j].id
      ]_vars

\* a layer was deactivated and the architecture expanded again afterwards: the list is
\* longer than maxLayers and still holds the deactivated layer
C28_Witness ==
    /\ Len(layers) > layerConfig.maxLayers
    /\ \E i \in 1..Len(layers) : ~layers[i].active
    /\ layers[Len(layers)].active
    /\ layers[Len(layers)].id = Len(layers) - 1

\* the chunked path, as inference c has run it so far, is in order
ChunkedInOrder(c) ==
    LET size == calculateOptimalChunkSize(engineProfile)
        n == Len(c.chunks)
    IN /\ n >= 1
       /\ mergeResults(c.chunks) = c.input
       /\ \A i \in 1..(n - 1) : Len(c.chunks[i]) = size
       /\ Len(c.chunks[n]) >= 1 /\ Len(c.chunks[n]) <= size
       /\ IsPrefix(c.invoked, c.chunks)
       /\ \A i \in 1..Len(c.results) : c.results[i] = modelFn(c.chunks[i])
       /\ c.pc = "chunk" => Len(c.invoked) = Len(c.results) + 1
       /\ c.pc = "yield" => Len(c.invoked) = Len(c.results)
       /\ c.pc = "failed" => (Len(c.invoked) = Len(c.results) + 1 /\ c.output = <<>>)
       /\ c.pc = "returned" =>
             /\ c.invoked = c.chunks
             /\ Len(c.results) = n
             /\ c.output = mergeResults(c.results)

\* C29: when the memory check fails, executeInference splits the input into
\* consecutive chunks of the computed chunk size, the last one possibly shorter, calls
\* the inference function once per chunk, one after another in input order with a
\* yield between, and returns the chunk outputs concatenated in that order; when a
\* chunk's call fails, the call fails and no later chunk is invoked.
C29_ChunkedInOrder ==
    [][ \A k \in 1..Len(inferences') :
          LET c == inferences'[k]
          IN /\ c.path = "chunked" <=>
                   ~checkMemoryAvailability(engineProfile, memoryUsage, Len(c.input))
             /\ c.path = "chunked" => ChunkedInOrder(c)
             /\ (k <= Len(inferences) /\ c.path = "chunked") =>
                   /\ inferences[k].pc = "failed" => c = inferences[k]
                   /\ (inferences[k].pc = "chunk" /\ c # inferences[k]) =>
                         /\ c.pc \in {"yield", "failed"}
                         /\ c.invoked = inferences[k].invoked
                   /\ (inferences[k].pc = "yield" /\ c.pc = "chunk") =>
                         Len(c.invoked) = Len(inferences[k].invoked) + 1
      ]_vars

\* an input of five elements went through three chunks and came back whole, and an
\* input of four failed at its second chunk
C29_Witness ==
    /\ Len(inferences) = 2
    /\ inferences[1].path = "chunked"
    /\ inferences[1].pc = "returned"
    /\ inferences[1].chunks = <<<<4, 500>>, <<6, 500>>, <<700>>>>
    /\ inferences[1].output = modelFn(inferences[1].input)
    /\ inferences[2].pc = "failed"
    /\ inferences[2].invoked = <<<<500, 6>>, <<4, 500>>>>

\* C30: the mixed-precision and quantization flags are one-way. Across executeInference
\* and optimizeSettings calls a flag that is true is never set back to false, and
\* optimizeSettings changes nothing in the engine but these two flags.
C30_FlagsOneWay ==
    [][ /\ engineConfig.useMixedPrecision => engineConfig'.useMixedPrecision
        /\ engineConfig.enableQuantization => engineConfig'.enableQuantization
        /\ lastCall'.op = "optimizeSettings" =>
              /\ UNCHANGED <<engineProfile, memoryUsage, inferenceHistory, inferences>>
              /\ engineConfig'.dynamicBatching = engineConfig.dynamicBatching
              /\ engineConfig'.memoryPoolSize = engineConfig.memoryPoolSize
        /\ lastCall'.op # "optimizeSettings" => engineConfig' = engineConfig
      ]_vars

\* an engine built with quantization on and mixed precision off ran its first call on
\* the unconverted input; optimizeSettings then turned mixed precision on, and a later
\* optimizeSettings call, made with every recorded call within the target latency,
\* left both flags on
C30_Witness ==
    /\ lastCall.op = "optimizeSettings"
    /\ engineConfig.useMixedPrecision
    /\ engineConfig.enableQuantization
    /\ Len(inferences) = 2
    /\ inferences[1].path = "direct"
    /\ inferences[1].invoked = <<<<4, 500>>>>
    /\ inferences[2].path = "direct"
    /\ inferences[2].invoked = <<<<0, 500>>>>
    /\ Len(inferenceHistory) = 2
    /\ \A i \in 1..Len(inferenceHistory) :
          inferenceHistory[i].latency <= engineProfile.targetLatency

\* the highest similarity of an entry to the entries of previous, in hundredths
RECURSIVE BestMatch(_, _)
BestMatch(entry, previous) ==
    IF Len(previous) = 1 THEN computeSimilarity(entry.output, previous[1].output)
    ELSE Max(computeSimilarity(entry.output, Head(previous).output),
             BestMatch(entry, Tail(previous)))

\* the sum over the entries of recent of 1 - best match, in hundredths
RECURSIVE NoveltySum(_, _)
NoveltySum(recent, previous) ==
    IF recent = <<>> THEN 0
    ELSE (100 - BestMatch(Head(recent), previous)) + NoveltySum(Tail(recent), previous)

\* C31: anomalyDetected is true exactly when, over the 5 most recent samples, the mean
\* of 1 - (the highest similarity to any of the up to 5 samples before them) exceeds
\* 0.7; it is false with fewer than 5 samples and with no sample before them.
C31_AnomalyByBestMatch ==
    lastCall.op = "monitorOutput" =>
        LET n == Len(outputHistory)
            recent == Slice(outputHistory, Max(n - 4, 1), n)
            previous == Slice(outputHistory, Max(n - 9, 1), n - 5)
        IN lastCall.metrics.anomalyDetected
               = /\ n >= 5
                 /\ n > 5
                 /\ NoveltySum(recent, previous) > AnomalyCutoff * 5

\* C32: generate runs its generation passes through the inference engine: once a
\* generate call has returned, inferenceHistory holds at least one record and the
\* performance part of getStatus() is not the all-zero value of an empty history.
C32_GenerateRecordsInference ==
    ReturnedCalls # {} =>
        /\ Len(inferenceHistory) >= 1
        /\ getPerformanceMetrics(inferenceHistory, engineProfile)
               # [avgLatency |-> Frac(0, 1), avgMemoryUsage |-> Frac(0, 1),
                  targetLatencyMet |-> Frac(0, 1)]

\* C34: layersUsed (and memoryUsed = 10 x layersUsed) in the result of a generate
\* call is the active layer count that call's own adaptLayers step produced, also
\* when other generate calls adapt the architecture while the call is suspended.
C34_OwnAdaptedCount ==
    \A k \in ReturnedCalls :
        /\ calls[k].layersUsed = calls[k].adapted
        /\ calls[k].memoryUsed = MemoryPerLayer * calls[k].adapted

\* the optimize calls that returned after a cycle
CompletedOptimize == { o \in 1..Len(optimizeCalls) : optimizeCalls[o].pc = "returned" }

\* the place of generate call k's sample in the complexity history: the calls that
\* passed the guard push one sample each, in call order
SamplePosition(k) == Cardinality({ j \in PassedCalls : j <= k })

\* C33: an optimize() call that returns on an Orchestrator with self-optimization
\* enabled has run one cycle over the two fixed test cases: it invoked generate exactly
\* twice, first at the preview and then at the standard resolution, each invocation
\* gave the layer controller exactly one complexity sample (that of a four-word prompt
\* at its resolution), and the generation counter and the benchmark history grew by
\* one per such call. With self-optimization disabled optimize invokes nothing and
\* changes no state.
C33_OptimizeOneCycle ==
    /\ \A o \in CompletedOptimize :
          LET invoked == optimizeCalls[o].invoked
          IN /\ Len(invoked) = 2
             /\ calls[invoked[1]].resolution = "preview"
             /\ calls[invoked[2]].resolution = "standard"
             /\ \A i \in 1..2 :
                   /\ calls[invoked[i]].pc = "returned"
                   /\ complexityHistory[SamplePosition(invoked[i])]
                         = analyzeTaskComplexity(calls[invoked[i]].resolution, 4)
    /\ Len(complexityHistory) = Cardinality(PassedCalls)
    /\ optState.generation = Cardinality(CompletedOptimize)
    /\ Len(benchmarkHistory) = Cardinality(CompletedOptimize)
    /\ enableSelfOptimization =>
          \A o \in 1..Len(optimizeCalls) : optimizeCalls[o].pc # "disabled"
    /\ ~enableSelfOptimization =>
          /\ \A o \in 1..Len(optimizeCalls) :
                optimizeCalls[o].pc = "disabled" /\ optimizeCalls[o].invoked = <<>>
          /\ calls = <<>>
          /\ complexityHistory = <<>>
          /\ layers = initializeBaseLayers(layerConfig)
          /\ optState.generation = 0
          /\ optState.currentMetrics = ZeroMetrics
          /\ benchmarkHistory = <<>>

\* two optimize calls ran on an initialized Orchestrator with self-optimization
\* enabled, their generate calls interleaved, and both returned
C33_Witness ==
    /\ enableSelfOptimization
    /\ Cardinality(CompletedOptimize) = 2
    /\ optimizeCalls[1].invoked[2] > optimizeCalls[2].invoked[1]

\* the optimize calls among ocs that rejected
RejectedOptimize(ocs) == { o \in 1..Len(ocs) : ocs[o].pc = "failed" }

\* C36: when the evaluator (generate) fails for a test case, on its guard or in a
\* pass, the failure reaches optimize's caller and generation, bestMetrics,
\* currentMetrics, the improvement and degradation counts and the benchmark history
\* stay exactly as they were; optimize on an uninitialized Orchestrator fails at its
\* first test case without advancing the generation counter.
C36_FailedCycleChangesNothing ==
    [][ /\ RejectedOptimize(optimizeCalls') # RejectedOptimize(optimizeCalls) =>
              UNCHANGED <<optState, benchmarkHistory, optimizationThreshold>>
        /\ \A k \in 1..Len(calls') :
              /\ calls'[k].pc \in {"threw", "failed"}
              /\ (k > Len(calls) \/ calls[k].pc # calls'[k].pc)
              => \E o \in RejectedOptimize(optimizeCalls') \ RejectedOptimize(optimizeCalls) :
                     optimizeCalls'[o].invoked[Len(optimizeCalls'[o].invoked)] = k
        /\ \A o \in RejectedOptimize(optimizeCalls) : optimizeCalls'[o] = optimizeCalls[o]
        /\ (Len(optimizeCalls') > Len(optimizeCalls) /\ enableSelfOptimization /\ ~initialized) =>
              /\ optimizeCalls'[Len(optimizeCalls')].pc = "failed"
              /\ optState'.generation = optState.generation
      ]_vars

\* an optimize call was rejected by a failing pass of its second test case,
\* while the other optimize call completed its cycle
C36_Witness ==
    /\ optState.generation = 1
    /\ \E o \in RejectedOptimize(optimizeCalls) :
          Len(optimizeCalls[o].invoked) = 2 /\ calls[optimizeCalls[o].invoked[2]].pc = "failed"

\* C35: in every reachable state of the Optimization Loop improvements + degradations
\* is at most generation and the benchmark history has generation entries; with a
\* non-negative threshold the weighted composite 0.4 quality + 0.3 speed
\* + 0.2 memoryEfficiency + 0.1 consistency of bestMetrics after a cycle is never
\* below what it was before that cycle.
C35_LoopCounters ==
    /\ optState.improvements + optState.degradations <= optState.generation
    /\ Len(benchmarkHistory) = optState.generation
    /\ (optimizationThreshold >= 0 /\ lastCall.op = "runOptimizationCycle") =>
          CompositeScore(optState.bestMetrics) >= CompositeScore(lastCall.before.bestMetrics)

\* improving, degrading and indifferent cycles have all happened, and the last cycle
\* measured a lower composite than the best and left the best alone
C35_Witness ==
    /\ optState.improvements >= 1
    /\ optState.degradations >= 1
    /\ optState.improvements + optState.degradations < optState.generation
    /\ lastCall.op = "runOptimizationCycle"
    /\ lastCall.outcome = "returned"
    /\ CompositeScore(lastCall.metrics) < CompositeScore(lastCall.before.bestMetrics)
    /\ optState.bestMetrics = lastCall.before.bestMetrics

\* the outputs in the monitor's history are pairwise distinct
PairwiseDistinct(h) == \A i, j \in 1..Len(h) : i # j => h[i].output # h[j].output

\* the invocations of the callbacks for issue c, with their severities
AlertsOn(c) ==
    { <<lastCall.alerts[i].callback, lastCall.alerts[i].severity>> :
        i \in { j \in 1..Len(lastCall.alerts) : lastCall.alerts[j].issue = c } }

\* C37: when every monitored output and expected pattern is a non-string value, each
\* monitorOutput call finds hallucinationRate 0, no anomaly and a driftScore of at most
\* 0.5; when moreover the outputs are pairwise distinct, from the second call on
\* outputStability and confidenceLevel are 0.5 and, with the default thresholds, the
\* call raises the stability alert (medium) and the confidence alert (low) on every
\* registered callback.
C37_BuffersOnly ==
    ( /\ lastCall.op = "monitorOutput"
      /\ \A i \in 1..Len(outputHistory) :
            ~IsString(outputHistory[i].output) /\ ~IsString(outputHistory[i].expectedPattern) )
    => LET m == lastCall.metrics
       IN /\ m.hallucinationRate.n = 0
          /\ ~m.anomalyDetected
          /\ 2 * m.driftScore.n <= m.driftScore.d
          /\ (PairwiseDistinct(outputHistory) /\ Len(outputHistory) >= 2) =>
                /\ 2 * m.outputStability.n = m.outputStability.d
                /\ 2 * m.confidenceLevel.n = m.confidenceLevel.d
                /\ healthThresholds = DefaultHealthThresholds =>
                      \A cb \in Range(alertCallbacks) :
                          /\ <<cb, "medium">> \in AlertsOn("stability")
                          /\ <<cb, "low">> \in AlertsOn("confidence")

\* the eleventh of eleven pairwise distinct buffers, some with an expected pattern, was
\* monitored with two callbacks registered: drift is 0.5 and both alerts were raised
C37_Witness ==
    /\ lastCall.op = "monitorOutput"
    /\ Len(outputHistory) = 11
    /\ PairwiseDistinct(outputHistory)
    /\ outputHistory[11].expectedPattern # NoPattern
    /\ Len(alertCallbacks) = 2
    /\ 2 * lastCall.metrics.driftScore.n = lastCall.metrics.driftScore.d
    /\ <<2, "low">> \in AlertsOn("confidence")

\* C38: registerPlugin on an id that is active replaces the stored plugin and leaves
\* the active set as it was, the id at its place in the activation order and no other
\* plugin touched; executePlugin runs the body stored under the id at the time of the
\* call, with no activation in between, and executePluginsByType folds an active id
\* exactly under the type stored for it at the time of the call.
C38_ReplaceKeepsActive ==
    [][ /\ (lastCall'.op = "registerPlugin" /\ SetHas(activePlugins, lastCall'.id)) =>
              /\ activePlugins' = activePlugins
              /\ plugins'[lastCall'.id] = lastCall'.plugin
              /\ \A id \in DOMAIN plugins \ {lastCall'.id} : plugins'[id] = plugins[id]
        /\ (lastCall'.op = "executePlugin" /\ ~lastCall'.outcome.threw) =>
              /\ UNCHANGED pluginVars
              /\ lastCall'.outcome.executeCalls = <<lastCall'.id>>
              /\ lastCall'.outcome.output.trail
                    = Append(lastCall'.input.trail, plugins[lastCall'.id].body)
        /\ (lastCall'.op = "executePluginsByType" /\ ~lastCall'.outcome.threw) =>
              \A id \in Range(activePlugins) :
                  id \in Range(lastCall'.outcome.executeCalls)
                     <=> plugins[id].type = lastCall'.type
      ]_vars

\* "sharpen", a post-processor by default, was active ahead of another plugin when it
\* was registered again as a pre-processor; it is still first in the active set
C38_Witness ==
    /\ lastCall.op = "registerPlugin"
    /\ lastCall.overwrote
    /\ lastCall.id = "sharpen"
    /\ plugins["sharpen"].type = "preprocessor"
    /\ Len(activePlugins) >= 2
    /\ activePlugins[1] = "sharpen"

\* C39: in every reachable state of the Curriculum Controller stagesCompleted and the
\* currentStage field of the progress record both equal currentStageIndex, and the
\* rolling window holds at most 100 samples, all recorded since the last advance: an
\* advance empties it, and a call that does not advance appends its accuracy, dropping
\* the oldest sample once there are more than 100.
C39_ProgressTracksStage ==
    [][ /\ progress.stagesCompleted = currentStageIndex
        /\ progress.currentStage = currentStageIndex
        /\ Len(performanceHistory) <= 100
        /\ progress'.stagesCompleted = currentStageIndex'
        /\ progress'.currentStage = currentStageIndex'
        /\ Len(performanceHistory') <= 100
        /\ lastCall'.op = "updateProgress" =>
              IF currentStageIndex' # currentStageIndex
              THEN /\ currentStageIndex' = currentStageIndex + 1
                   /\ performanceHistory' = <<>>
              ELSE performanceHistory'
                      = IF Len(performanceHistory) < 100
                        THEN Append(performanceHistory, lastCall'.accuracy)
                        ELSE Append(Tail(performanceHistory), lastCall'.accuracy)
      ]_vars

\* after the advance to the second stage the window has filled up again with 100
\* samples of that stage
C39_Witness ==
    /\ currentStageIndex = 1
    /\ progress.stagesCompleted = 1
    /\ progress.currentStage = 1
    /\ Len(performanceHistory) = 100
    /\ lastCall.op = "updateProgress"

====
